---- MODULE Spec2Model ----
(***************************************************************************)
(* Halli Galli game server (socket/handler.go): the room registry, the     *)
(* rooms, the per-connection request handlers, the registry task           *)
(* (Handler.Run) and the per-room timers, as one state machine.            *)
(*                                                                         *)
(* Granularity.  Each request handler runs in its connection's read        *)
(* goroutine and takes and releases the room lock several times, so a      *)
(* handler is a sequence of steps; the position of each connection inside  *)
(* its handler is pc[c] and the handler's local variables are loc[c].  One *)
(* step is one critical section of room.mu together with the unlocked code *)
(* that follows it up to the next critical section that matters.  Timer    *)
(* callbacks (openCard, the game-timer closure) hold room.mu from start to *)
(* end and are one step each; a timer that has fired but whose callback has*)
(* not run yet is counted in tm[o].cardFired / tm[o].gameFired.            *)
(***************************************************************************)
EXTENDS Integers, Sequences, FiniteSets, TLC

(***************************************************************************)
(* Bounds of the model                                                     *)
(***************************************************************************)
NumClients == 3      \* connections accepted by HandleWebSocket
MaxRoomId == 2       \* EnterRoom requests carry roomId in 1..MaxRoomId
MaxObjs == 2         \* Room objects ever allocated
MaxRequests == 3     \* requests and disconnects of all connections together
StartingCards == 1   \* cards dealt per seat (config.StartingCards is 10)
MaxFruitCount == 2   \* a revealed card shows 1..MaxFruitCount fruits (the code draws 1..5)
MaxTimers == 2       \* live reveal timers (armed or fired) per room
MaxRooms == 1        \* the room cap of the model (config.MaxRooms is 6)
NumTasks == 2        \* goroutines that take locks or send frames at the same time
SendCap == 1         \* capacity of Client.Send (HandleWebSocket makes it 256)

(***************************************************************************)
(* Program constants                                                       *)
(***************************************************************************)
DefaultMaxPlayers == 8       \* config.MaxPlayers, used by the implicit create
DefaultFruitVariation == 3
DefaultFruitBellCount == 5
DefaultGameTempo == 0
CardOpenInterval == 2        \* config.CardOpenInterval, in seconds
\* packet.go: the request signals and the reply codes
ResponsePong == 1
RequestPing == 1
RequestEnterRoom == 1001
RequestLeaveRoom == 1002
RequestGetRoomList == 1003
RequestCreateRoom == 1004
RequestReadyGame == 1011
RequestRingBell == 2001
RequestEmotion == 2004
RequestCreateAccount == 4000
RequestLogin == 4001
CodeSuccess == 200
CodeError == 400

\* CreateRoom settings the clients of the model send (all pass validation)
MaxPlayerCountInputs == {2}
FruitVariationInputs == {2}
FruitCountInputs == {3}
SpeedInputs == {0}

Clients == 1..NumClients
Objs == 1..MaxObjs
RoomIdInputs == 1..MaxRoomId
IdSpace == 1..(MaxRoomId + MaxObjs)

Nil == <<>>
Size(a) == Cardinality(DOMAIN a)
Seats(n) == 0..(n - 1)

VARIABLES
  clients,   \* Handler.clients: the registered connections
  alive,     \* alive[c]: the read goroutine of connection c is still running
  cl,        \* cl[c]: the Client struct fields IsInRoom, RoomID
  rooms,     \* Handler.rooms: room id -> Room object (0 = no entry)
  heap,      \* heap[o]: the fields of Room object o
  nalloc,    \* number of Room objects allocated so far
  tm,        \* tm[o]: timers of Room object o that the handle does not describe;
             \* tick changes with every card openCard reveals
  pc,        \* pc[c]: position of connection c's read goroutine in its handler
  loc,       \* loc[c]: local variables of that handler
  run,       \* position of Handler.Run in its unregister branch
  lastEmit,  \* the last event written to connections' Send channels
  reply,     \* the last frame a handler sent to its own connection, and how many so far
  crashed,   \* a goroutine panicked or spins forever holding a room lock
  nreq,      \* requests and disconnects handled so far
  lk,        \* lk[t]: the critical section task t is in, and how far it has come
  send,      \* send[c]: the channel Client.Send of connection c
  bc         \* bc[t]: position of task t in a sendToClient call

vars == <<clients, alive, cl, rooms, heap, nalloc, tm, pc, loc, run, lastEmit, reply, crashed, nreq,
          lk, send, bc>>

\* the locks and the channels, which the lobby and game actions leave alone
sync == <<lk, send, bc>>

(***************************************************************************)
(* Room objects                                                            *)
(***************************************************************************)
NewRoom(id, maxP, fv, fb, tempo) ==
  [ ID |-> id, maxPlayers |-> maxP, fruitVariation |-> fv, fruitBellCount |-> fb,
    gameTempo |-> tempo,
    players |-> {}, isGameStarted |-> FALSE,
    playerCards |-> Nil, readyPlayers |-> {}, readyNil |-> TRUE,
    playerIndexes |-> Nil,
    isCardGameStarted |-> FALSE, currentPlayerIndex |-> 0, cardTimer |-> "nil",
    cardInterval |-> 0,
    publicFruitIndexes |-> Nil, publicFruitCounts |-> Nil, openCards |-> Nil,
    bellRung |-> FALSE, gameTimer |-> "nil", isTimeExpired |-> FALSE,
    lastEmotionTimes |-> {} ]

NoRoom == NewRoom(0, 0, 0, 0, 0)
NoTimers == [cardOrphans |-> 0, cardFired |-> 0, gameFired |-> 0, tick |-> FALSE]
NoLoc == [room |-> 0, count |-> 0, bell |-> FALSE, idx |-> -1, given |-> Nil,
          playing |-> FALSE, revealed |-> FALSE, paid |-> Nil]
NoEmit == [sig |-> "none", room |-> 0, to |-> {}, data |-> Nil]
Client0 == [IsInRoom |-> FALSE, RoomID |-> 0]

\* number of reveal timers of room object o that can still run openCard
LiveCardTimers(o) ==
  (IF heap[o].cardTimer = "armed" THEN 1 ELSE 0) + tm[o].cardOrphans + tm[o].cardFired
\* number of reveal timers of o that are armed and have not fired
PendingCardTimers(o) ==
  (IF heap[o].cardTimer = "armed" THEN 1 ELSE 0) + tm[o].cardOrphans
PendingGameTimers(o) == IF heap[o].gameTimer = "armed" THEN 1 ELSE 0

\* the recipients of every room broadcast of the handler: "if client.IsInRoom"
InAnyRoom == {c \in clients : cl[c].IsInRoom}

Emit(sig, o, to, data) == [sig |-> sig, room |-> o, to |-> to, data |-> data]

\* a frame sent to one connection: the signal, the code, whether the data is
\* the empty object; n counts the frames handlers sent to their own connection
NoReply == [to |-> 0, sig |-> 0, code |-> 0, empty |-> TRUE, n |-> 0]
\* an error reply that carries the error message in its data
SendErrorWithSignal_Message(c, signal) ==
  reply' = [to |-> c, sig |-> signal, code |-> CodeError, empty |-> FALSE, n |-> reply.n + 1]
\* sendErrorWithSignal, lines 1213-1217, with NewErrorResponse, packet.go 79-81
SendErrorWithSignal(c, signal) ==
  reply' = [to |-> c, sig |-> signal, code |-> CodeError, empty |-> TRUE, n |-> reply.n + 1]
\* sendToClient(client, NewSuccessResponse(signal, data)), packet.go 75-77
SendSuccess(c, signal, empty) ==
  reply' = [to |-> c, sig |-> signal, code |-> CodeSuccess, empty |-> empty, n |-> reply.n + 1]

\* goroutines: read goroutines in their handlers, timer callbacks, Handler.Run
Tasks == 1..NumTasks
\* no task is inside a critical section
NoLocks == [t \in Tasks |-> [region |-> "idle", room |-> 0, i |-> 0, waiting |-> FALSE]]
\* HandleWebSocket, line 460: Send is an open, empty channel; fault records a
\* close of the closed channel or a send on it
OpenChannels == [c \in Clients |-> [len |-> 0, closed |-> FALSE, fault |-> "none"]]
\* no task is inside sendToClient
NoSends == [t \in Tasks |-> [at |-> "idle", to |-> 0, locked |-> FALSE]]

Init ==
  /\ clients = Clients
  /\ alive = [c \in Clients |-> TRUE]
  /\ cl = [c \in Clients |-> Client0]
  /\ rooms = [i \in IdSpace |-> 0]
  /\ heap = [o \in Objs |-> NoRoom]
  /\ nalloc = 0
  /\ tm = [o \in Objs |-> NoTimers]
  /\ pc = [c \in Clients |-> "idle"]
  /\ loc = [c \in Clients |-> NoLoc]
  /\ run = [pc |-> "idle", room |-> 0]
  /\ lastEmit = NoEmit
  /\ reply = NoReply
  /\ lk = NoLocks
  /\ send = OpenChannels
  /\ bc = NoSends
  /\ crashed = FALSE
  /\ nreq = 0

\* readPump is between two messages and reads the next one.  Every request is
\* counted in nreq, also one that its handler's first checks turn away.
CanRequest(c) == ~crashed /\ alive[c] /\ pc[c] = "idle" /\ nreq < MaxRequests
At(c, p) == ~crashed /\ pc[c] = p
Goto(c, p) == pc' = [pc EXCEPT ![c] = p]
Return(c) == /\ pc' = [pc EXCEPT ![c] = "idle"]
             /\ loc' = [loc EXCEPT ![c] = NoLoc]

(***************************************************************************)
(* handleMessage: validation of the frame, and Ping                        *)
(***************************************************************************)
\* The frames of the model are JSON objects whose signal is an integer or is
\* absent and whose data is absent, null or an object.
\* 7 is a signal no request and no reply uses
SignalInputs == {7, RequestPing, RequestLeaveRoom, RequestRingBell}
DataInputs == {"missing", "null", "object"}
Frames == {f \in [hasSignal : BOOLEAN, signal : SignalInputs \cup {0}, data : DataInputs] :
             f.hasSignal <=> f.signal # 0}

\* packet.go, lines 107-118
validSignals ==
  {RequestPing, RequestEnterRoom, RequestLeaveRoom, RequestGetRoomList, RequestReadyGame,
   RequestRingBell, RequestEmotion, RequestCreateAccount, RequestLogin, RequestCreateRoom}

\* request.Signal after json.Unmarshal, packet.go line 102: an absent field
\* leaves the zero value
DecodedSignal(frame) == IF frame.hasSignal THEN frame.signal ELSE 0

\* ValidateRequestPacket, packet.go lines 100-131: the frame passes
ValidateRequestPacket(frame) ==
  DecodedSignal(frame) \in validSignals /\ frame.data = "object"

\* an error reply that does not echo the signal (sendError, lines 1206-1210)
ErrorSignal_Zero(frame) == 0

\* handleMessage, lines 549-557: the signal of the error reply is the signal
\* field of the raw message when it is a number, else 0
ErrorSignal(frame) == IF frame.hasSignal THEN frame.signal ELSE 0

\* handleMessage, lines 543-558, on a frame that fails the validation, and
\* lines 561-563 with handlePing, lines 589-594, on a valid Ping
HandleMessage(c, frame) ==
  /\ CanRequest(c)
  /\ nreq' = nreq + 1
  /\ IF ~ValidateRequestPacket(frame)
     THEN SendErrorWithSignal(c, ErrorSignal(frame))
     ELSE /\ frame.signal = RequestPing
          /\ SendSuccess(c, ResponsePong, FALSE)
  /\ UNCHANGED <<sync, clients, alive, cl, rooms, heap, nalloc, tm, pc, loc, run, lastEmit, crashed>>

(***************************************************************************)
(* EnterRoom                                                               *)
(***************************************************************************)
\* handleEnterRoom, lines 599-684: the checks, and the implicit create
EnterCheck(c, rid) ==
  /\ CanRequest(c)
  /\ nreq' = nreq + 1
  /\ UNCHANGED <<sync, clients, alive, cl, tm, run, lastEmit, crashed>>
  /\ IF cl[c].IsInRoom
     THEN /\ SendErrorWithSignal(c, RequestEnterRoom)
          /\ UNCHANGED <<rooms, heap, nalloc, pc, loc>>
     ELSE LET exists == rooms[rid] # 0
              o == IF exists THEN rooms[rid] ELSE nalloc + 1
          IN /\ exists \/ nalloc < MaxObjs
             /\ rooms' = IF exists THEN rooms ELSE [rooms EXCEPT ![rid] = o]
             /\ heap' = IF exists THEN heap
                        ELSE [heap EXCEPT ![o] = NewRoom(rid, DefaultMaxPlayers,
                                 DefaultFruitVariation, DefaultFruitBellCount, DefaultGameTempo)]
             /\ nalloc' = IF exists THEN nalloc ELSE o
             /\ IF \/ c \in heap'[o].players
                   \/ Cardinality(heap'[o].players) >= heap'[o].maxPlayers
                   \/ heap'[o].isGameStarted
                THEN /\ SendErrorWithSignal(c, RequestEnterRoom)
                     /\ UNCHANGED <<pc, loc>>
                ELSE /\ Goto(c, "enterAdd")
                     /\ loc' = [loc EXCEPT ![c].room = o]
                     /\ reply' = reply

\* lines 699-726 and notifyPlayerCountChanged 918-920: join the roster, mark
\* the client, reply, read the roster size
EnterAdd(c) ==
  /\ At(c, "enterAdd")
  /\ LET o == loc[c].room IN
     /\ heap' = [heap EXCEPT ![o].players = @ \cup {c}]
     /\ cl' = [cl EXCEPT ![c] = [IsInRoom |-> TRUE, RoomID |-> heap[o].ID]]
     /\ loc' = [loc EXCEPT ![c].count = Cardinality(heap'[o].players)]
  /\ SendSuccess(c, RequestEnterRoom, FALSE)
  /\ Goto(c, "enterNotify")
  /\ UNCHANGED <<sync, clients, alive, rooms, nalloc, tm, run, lastEmit, crashed, nreq>>

\* notifyPlayerCountChanged, lines 922-938: send the count that was read
NotifyPlayerCountChanged(o, count) ==
  lastEmit' = Emit("PlayerCountChanged", o,
                   {d \in clients : cl[d].IsInRoom /\ cl[d].RoomID = heap[o].ID}, count)

EnterNotify(c) ==
  /\ At(c, "enterNotify")
  /\ NotifyPlayerCountChanged(loc[c].room, loc[c].count)
  /\ Goto(c, "enterStart")
  /\ UNCHANGED <<sync, reply, clients, alive, cl, rooms, heap, nalloc, tm, loc, run, crashed, nreq>>

\* the seat orders shuffleStringSlice can produce: every bijection players -> seats
SeatOrders(players) ==
  {f \in [players -> Seats(Cardinality(players))] :
     \A a, b \in players : a # b => f[a] # f[b]}

\* checkAndStartGame, lines 749-798: the state of the room once the game is started
StartedRoom(room, order) ==
  LET n == Cardinality(room.players) IN
  [room EXCEPT !.isGameStarted = TRUE,
               !.readyPlayers = {}, !.readyNil = FALSE,
               !.playerCards = [i \in Seats(n) |-> StartingCards],
               !.publicFruitIndexes = [i \in Seats(n) |-> -1],
               !.publicFruitCounts = [i \in Seats(n) |-> -1],
               !.openCards = [i \in Seats(n) |-> 0],
               !.playerIndexes = order,
               !.bellRung = FALSE]

\* checkAndStartGame, lines 737-834, under room.mu
CheckAndStartGame(c) ==
  /\ At(c, "enterStart")
  /\ LET o == loc[c].room
         room == heap[o]
     IN IF ~room.isGameStarted /\ Cardinality(room.players) = room.maxPlayers
        THEN \E order \in SeatOrders(room.players) :
               /\ heap' = [heap EXCEPT ![o] = StartedRoom(room, order)]
               /\ lastEmit' = Emit("StartGame", o,
                                   {d \in InAnyRoom : d \in DOMAIN order}, order)
        ELSE UNCHANGED <<heap, lastEmit>>
  /\ Return(c)
  /\ UNCHANGED <<sync, reply, clients, alive, cl, rooms, nalloc, tm, run, crashed, nreq>>

(***************************************************************************)
(* CreateRoom                                                              *)
(***************************************************************************)
\* the id handleCreateRoom picks, lines 2009-2014
NewRoomID == IF \E i \in IdSpace : rooms[i] # 0
             THEN 1 + CHOOSE i \in IdSpace : rooms[i] # 0 /\ \A j \in IdSpace : rooms[j] # 0 => j <= i
             ELSE 1

\* handleCreateRoom, lines 1891-2015: checks and the choice of the id
CreatePick(c) ==
  /\ CanRequest(c)
  /\ nreq' = nreq + 1
  /\ UNCHANGED <<sync, clients, alive, cl, rooms, heap, nalloc, tm, run, lastEmit, crashed>>
  /\ IF cl[c].IsInRoom
     THEN /\ SendErrorWithSignal(c, RequestCreateRoom)
          /\ UNCHANGED <<pc, loc>>
     ELSE /\ reply' = reply
          /\ NewRoomID \in IdSpace
          /\ nalloc < MaxObjs
          /\ Goto(c, "createReg")
          /\ loc' = [loc EXCEPT ![c].idx = NewRoomID]

\* lines 2018-2079 and notifyPlayerCountChanged 918-920: allocate and register
\* the room, join it, reply with ResponseCreateRoom and then with
\* ResponseEnterRoom, read the roster size
CreateRegister(c, maxP, fv, fb, tempo) ==
  /\ At(c, "createReg")
  /\ nalloc < MaxObjs
  /\ LET o == nalloc + 1
         id == loc[c].idx
     IN /\ nalloc' = o
        /\ heap' = [heap EXCEPT ![o] = [NewRoom(id, maxP, fv, fb, tempo) EXCEPT !.players = {c}]]
        /\ rooms' = [rooms EXCEPT ![id] = o]
        /\ cl' = [cl EXCEPT ![c] = [IsInRoom |-> TRUE, RoomID |-> id]]
        /\ loc' = [loc EXCEPT ![c] = [NoLoc EXCEPT !.room = o, !.count = 1]]
  /\ reply' = [to |-> c, sig |-> RequestEnterRoom, code |-> CodeSuccess,
                empty |-> FALSE, n |-> reply.n + 2]
  /\ Goto(c, "createNotify")
  /\ UNCHANGED <<sync, clients, alive, tm, run, lastEmit, crashed, nreq>>

CreateNotify(c) ==
  /\ At(c, "createNotify")
  /\ NotifyPlayerCountChanged(loc[c].room, loc[c].count)
  /\ Return(c)
  /\ UNCHANGED <<sync, reply, clients, alive, cl, rooms, heap, nalloc, tm, run, crashed, nreq>>

(***************************************************************************)
(* LeaveRoom                                                               *)
(***************************************************************************)
RoomAt(id) == IF id \in IdSpace THEN rooms[id] ELSE 0
\* delete(h.rooms, id)
DeleteRoom(id) == [i \in IdSpace |-> IF i = id THEN 0 ELSE rooms[i]]

\* handleLeaveRoom, lines 839-857: the sender is in no room, or its room is
\* not registered, or the game of its room has started
LeaveRefused(c) ==
  ~cl[c].IsInRoom \/ RoomAt(cl[c].RoomID) = 0 \/ heap[RoomAt(cl[c].RoomID)].isGameStarted

\* handleLeaveRoom, lines 839-857: the checks (room.isGameStarted is read unlocked)
LeaveCheck(c) ==
  /\ CanRequest(c)
  /\ nreq' = nreq + 1
  /\ UNCHANGED <<sync, clients, alive, cl, rooms, heap, nalloc, tm, run, lastEmit, crashed>>
  /\ IF LeaveRefused(c)
     THEN /\ SendErrorWithSignal(c, RequestLeaveRoom)
          /\ UNCHANGED <<pc, loc>>
     ELSE /\ reply' = reply
          /\ Goto(c, "leaveRemove")
          /\ loc' = [loc EXCEPT ![c].room = RoomAt(cl[c].RoomID)]

\* lines 859-875: leave the roster, clear the client's flag (RoomID is kept), reply
LeaveRemove(c) ==
  /\ At(c, "leaveRemove")
  /\ heap' = [heap EXCEPT ![loc[c].room].players = @ \ {c}]
  /\ cl' = [cl EXCEPT ![c].IsInRoom = FALSE]
  /\ SendSuccess(c, RequestLeaveRoom, TRUE)
  /\ Goto(c, "leaveReset")
  /\ UNCHANGED <<sync, clients, alive, rooms, nalloc, tm, loc, run, lastEmit, crashed, nreq>>

\* lines 882-895: the reset of the game state of a started room
LeaveResetRoom(room) ==
  [room EXCEPT !.isGameStarted = FALSE, !.playerCards = Nil,
               !.readyPlayers = {}, !.readyNil = TRUE,
               !.isCardGameStarted = FALSE,
               !.publicFruitIndexes = Nil, !.publicFruitCounts = Nil, !.openCards = Nil,
               !.bellRung = FALSE, !.isTimeExpired = FALSE, !.playerIndexes = Nil,
               !.cardTimer = "nil", !.cardInterval = 0]

\* lines 879-910 and notifyPlayerCountChanged 918-920: reset a started game,
\* delete the room when its roster is empty, read the roster size
LeaveReset(c) ==
  /\ At(c, "leaveReset")
  /\ LET o == loc[c].room IN
     /\ heap' = IF heap[o].isGameStarted
                THEN [heap EXCEPT ![o] = LeaveResetRoom(heap[o])]
                ELSE heap
     /\ rooms' = IF heap[o].players = {} THEN DeleteRoom(cl[c].RoomID) ELSE rooms
     /\ loc' = [loc EXCEPT ![c].count = Cardinality(heap[o].players)]
  /\ Goto(c, "leaveNotify")
  /\ UNCHANGED <<sync, reply, clients, alive, cl, nalloc, tm, run, lastEmit, crashed, nreq>>

LeaveNotify(c) ==
  /\ At(c, "leaveNotify")
  /\ NotifyPlayerCountChanged(loc[c].room, loc[c].count)
  /\ Return(c)
  /\ UNCHANGED <<sync, reply, clients, alive, cl, rooms, heap, nalloc, tm, run, crashed, nreq>>

(***************************************************************************)
(* Timers                                                                  *)
(***************************************************************************)
\* getGameTempoInterval, lines 1413-1426, in milliseconds
getGameTempoInterval(gameTempo) ==
  CASE gameTempo = 0 -> 3000
    [] gameTempo = 1 -> 2000
    [] gameTempo = 2 -> 1500
    [] gameTempo = 3 -> 1000
    [] OTHER -> 3000

\* room.cardTimer = time.AfterFunc(...) without stopping the timer the handle
\* held: an armed timer the handle no longer names stays armed
ArmCardTimer(room, t) ==
  [room |-> [room EXCEPT !.cardTimer = "armed",
                         !.cardInterval = getGameTempoInterval(room.gameTempo)],
   tm |-> IF room.cardTimer = "armed" THEN [t EXCEPT !.cardOrphans = @ + 1] ELSE t]

\* startCardTimer, lines 1429-1440: stop the timer the handle names, then arm
\* a new one that expires after the room's tempo interval
RestartCardTimer(room) ==
  [room EXCEPT !.cardTimer = "armed",
               !.cardInterval = getGameTempoInterval(room.gameTempo)]

\* resetCardTimer, lines 2473-2489: stop the timer the handle names, then arm
\* a new one that expires after config.CardOpenInterval seconds
ResetCardTimer(room) ==
  [room EXCEPT !.cardTimer = "armed", !.cardInterval = CardOpenInterval * 1000]

\* startGameTimer, lines 2455-2470
StartGameTimer(room) == [room EXCEPT !.gameTimer = "armed"]

\* a reveal timer expires: its callback is started and will call openCard
CardTimerFire(o) ==
  /\ ~crashed
  /\ \/ /\ heap[o].cardTimer = "armed"
        /\ heap' = [heap EXCEPT ![o].cardTimer = "stale"]
        /\ tm' = [tm EXCEPT ![o].cardFired = @ + 1]
     \/ /\ tm[o].cardOrphans > 0
        /\ heap' = heap
        /\ tm' = [tm EXCEPT ![o].cardOrphans = @ - 1, ![o].cardFired = @ + 1]
  /\ UNCHANGED <<sync, reply, clients, alive, cl, rooms, nalloc, pc, loc, run, lastEmit, crashed, nreq>>

\* the game timer expires: its callback is started
GameTimerFire(o) ==
  /\ ~crashed
  /\ heap[o].gameTimer = "armed"
  /\ heap' = [heap EXCEPT ![o].gameTimer = "stale"]
  /\ tm' = [tm EXCEPT ![o].gameFired = @ + 1]
  /\ UNCHANGED <<sync, reply, clients, alive, cl, rooms, nalloc, pc, loc, run, lastEmit, crashed, nreq>>

\* the callback of startGameTimer, lines 2462-2467
GameTimerRun(o) ==
  /\ ~crashed
  /\ tm[o].gameFired > 0
  /\ heap' = [heap EXCEPT ![o].isTimeExpired = TRUE]
  /\ tm' = [tm EXCEPT ![o].gameFired = @ - 1]
  /\ UNCHANGED <<sync, reply, clients, alive, cl, rooms, nalloc, pc, loc, run, lastEmit, crashed, nreq>>

(***************************************************************************)
(* End of a game                                                           *)
(***************************************************************************)
\* a return that clears the face-up piles without giving them back
ReturnOpenCardsToPlayers_DropsPiles(room) ==
  [room EXCEPT !.openCards = [i \in DOMAIN room.openCards |-> 0]]

\* returnOpenCardsToPlayers, lines 2320-2333
ReturnOpenCardsToPlayers(room) ==
  [room EXCEPT
     !.playerCards = [i \in DOMAIN room.playerCards |->
                        IF room.openCards[i] > 0
                        THEN room.playerCards[i] + room.openCards[i]
                        ELSE room.playerCards[i]],
     !.openCards = [i \in DOMAIN room.openCards |-> 0]]

\* the order sort.Slice leaves the seats in, lines 2353-2355: the card counts
\* descend (seats with equal counts in any order)
SortedSeats(playerCards) ==
  LET n == Size(playerCards) IN
  CHOOSE s \in [1..n -> Seats(n)] :
    /\ \A i, j \in 1..n : i # j => s[i] # s[j]
    /\ \A i \in 1..(n - 1) : playerCards[s[i]] >= playerCards[s[i + 1]]

\* the loop of lines 2364-2376 up to position i of the sorted seats:
\* the rank and the card count it carries after position i
RECURSIVE RankAt(_, _, _)
RankAt(playerCards, s, i) ==
  IF i = 0 THEN [rank |-> 1, count |-> -1]
  ELSE LET prev == RankAt(playerCards, s, i - 1) IN
       IF playerCards[s[i]] # prev.count
       THEN [rank |-> i, count |-> playerCards[s[i]]]
       ELSE prev

\* a ranking by position in the sorted order, without shared ranks
calculatePlayerRanks_NoTies(playerCards) ==
  LET n == Size(playerCards)
      s == SortedSeats(playerCards)
  IN [p \in Seats(n) |-> CHOOSE k \in 1..n : s[k] = p]

\* calculatePlayerRanks, lines 2336-2379
calculatePlayerRanks(playerCards) ==
  LET n == Size(playerCards)
      s == SortedSeats(playerCards)
  IN [p \in Seats(n) |->
        LET i == CHOOSE k \in 1..n : s[k] = p IN RankAt(playerCards, s, i).rank]

\* endGameInternal, lines 2410-2422 and 2434-2442: the room after the reset
EndedRoom(room) ==
  [room EXCEPT !.isGameStarted = FALSE, !.isCardGameStarted = FALSE,
               !.playerCards = Nil, !.readyPlayers = {}, !.readyNil = TRUE,
               !.publicFruitIndexes = Nil, !.publicFruitCounts = Nil, !.openCards = Nil,
               !.bellRung = FALSE, !.isTimeExpired = FALSE, !.playerIndexes = Nil,
               !.players = {}, !.lastEmotionTimes = {},
               !.cardTimer = "nil", !.cardInterval = 0, !.gameTimer = "nil"]

\* endGameInternal, lines 2382-2445, on room object o whose fields are `room`
EndGameInternal(o, room) ==
  LET back == ReturnOpenCardsToPlayers(room) IN
  /\ lastEmit' = Emit("EndGame", o, InAnyRoom,
                      [cards |-> back.playerCards,
                       ranks |-> calculatePlayerRanks(back.playerCards)])
  /\ heap' = [heap EXCEPT ![o] = EndedRoom(back)]
  /\ cl' = [d \in Clients |->
              IF d \in clients /\ cl[d].RoomID = room.ID THEN Client0 ELSE cl[d]]

(***************************************************************************)
(* The reveal step                                                         *)
(***************************************************************************)
\* the loop of openCard, lines 1466-1486, entered with playerIndex = idx:
\* which seat reveals, or that the game ends, or that the index leaves
\* playerCards (panic), or that the loop never ends
RECURSIVE ScanSeats(_, _, _, _, _)
ScanSeats(playerCards, totalPlayers, idx, orig, fuel) ==
  IF idx \notin DOMAIN playerCards THEN [kind |-> "panic", idx |-> idx]
  ELSE IF playerCards[idx] > 0 THEN [kind |-> "reveal", idx |-> idx]
  ELSE LET nxt == (idx + 1) % totalPlayers IN
       IF nxt = orig THEN [kind |-> "end", idx |-> nxt]
       ELSE IF fuel = 0 THEN [kind |-> "hang", idx |-> nxt]
       ELSE ScanSeats(playerCards, totalPlayers, nxt, orig, fuel - 1)

\* a reveal that leaves the card in the hand
RevealCard_KeepsHand(room, idx, fruitIndex, fruitCount, totalPlayers) ==
  [room EXCEPT !.openCards[idx] = @ + 1,
               !.publicFruitIndexes[idx] = fruitIndex,
               !.publicFruitCounts[idx] = fruitCount,
               !.currentPlayerIndex = (idx + 1) % totalPlayers,
               !.bellRung = FALSE]

\* openCard, lines 1488-1500: seat idx reveals the card (fruitIndex, fruitCount)
RevealCard(room, idx, fruitIndex, fruitCount, totalPlayers) ==
  [room EXCEPT !.playerCards[idx] = @ - 1,
               !.openCards[idx] = @ + 1,
               !.publicFruitIndexes[idx] = fruitIndex,
               !.publicFruitCounts[idx] = fruitCount,
               !.currentPlayerIndex = (idx + 1) % totalPlayers,
               !.bellRung = FALSE]

\* positions of handleRingBell after the latch was set
RingPcs == {"ringCheck", "ringPay", "ringEmit"}

\* openCard, lines 1443-1526, run by a fired reveal timer under room.mu
OpenCard(o) ==
  /\ ~crashed
  /\ tm[o].cardFired > 0
  /\ UNCHANGED <<sync, reply, clients, alive, rooms, nalloc, pc, run, nreq>>
  /\ LET room == heap[o]
         totalPlayers == Cardinality(room.players)
         t == [tm[o] EXCEPT !.cardFired = @ - 1]
     IN IF ~room.isCardGameStarted \/ totalPlayers = 0
        THEN /\ tm' = [tm EXCEPT ![o] = t]
             /\ UNCHANGED <<cl, heap, loc, lastEmit, crashed>>
        ELSE LET scan == ScanSeats(room.playerCards, totalPlayers,
                                   room.currentPlayerIndex, room.currentPlayerIndex,
                                   totalPlayers)
             IN CASE scan.kind \in {"panic", "hang"} ->
                       /\ crashed' = TRUE
                       /\ tm' = [tm EXCEPT ![o] = t]
                       /\ UNCHANGED <<cl, heap, loc, lastEmit>>
                  [] scan.kind = "end" ->
                       /\ EndGameInternal(o, ReturnOpenCardsToPlayers(
                                               [room EXCEPT !.currentPlayerIndex = scan.idx]))
                       /\ tm' = [tm EXCEPT ![o] = t]
                       /\ UNCHANGED <<loc, crashed>>
                  [] scan.kind = "reveal" ->
                       \E fruitIndex \in Seats(room.fruitVariation), fruitCount \in 1..MaxFruitCount :
                         LET armed == ArmCardTimer(RevealCard(room, scan.idx, fruitIndex,
                                                              fruitCount, totalPlayers), t)
                         IN /\ heap' = [heap EXCEPT ![o] = armed.room]
                            /\ tm' = [tm EXCEPT ![o] = [armed.tm EXCEPT !.tick = ~@]]
                            /\ lastEmit' = Emit("OpenCard", o, InAnyRoom,
                                                <<fruitIndex, fruitCount, scan.idx>>)
                            /\ loc' = [d \in Clients |->
                                         IF pc[d] \in RingPcs /\ loc[d].room = o
                                         THEN [loc[d] EXCEPT !.revealed = TRUE]
                                         ELSE loc[d]]
                            /\ UNCHANGED <<cl, crashed>>

(***************************************************************************)
(* ReadyGame                                                               *)
(***************************************************************************)
\* handleReadyGame, lines 944-962: the checks (room.isGameStarted is read unlocked)
ReadyCheck(c) ==
  /\ CanRequest(c)
  /\ nreq' = nreq + 1
  /\ UNCHANGED <<sync, clients, alive, cl, rooms, heap, nalloc, tm, run, lastEmit, crashed>>
  /\ IF ~cl[c].IsInRoom \/ RoomAt(cl[c].RoomID) = 0 \/ ~heap[RoomAt(cl[c].RoomID)].isGameStarted
     THEN /\ SendErrorWithSignal(c, RequestReadyGame)
          /\ UNCHANGED <<pc, loc>>
     ELSE /\ reply' = reply
          /\ Goto(c, "readyMark")
          /\ loc' = [loc EXCEPT ![c].room = RoomAt(cl[c].RoomID)]

\* lines 964-998: mark the sender ready and compare the counts under room.mu
\* (writing to the nil map left by a reset panics); when all are ready enter
\* the card game, start both timers and broadcast ReadyGame
ReadyMark(c) ==
  /\ At(c, "readyMark")
  /\ UNCHANGED <<sync, reply, clients, alive, cl, rooms, nalloc, tm, run, nreq>>
  /\ LET o == loc[c].room
         ready == heap[o].readyPlayers \cup {c}
     IN IF heap[o].readyNil
        THEN /\ crashed' = TRUE
             /\ UNCHANGED <<heap, pc, loc, lastEmit>>
        ELSE /\ crashed' = crashed
             /\ Return(c)
             /\ IF Cardinality(ready) = Cardinality(heap[o].players)
                THEN /\ heap[o].cardTimer = "armed" \/ LiveCardTimers(o) < MaxTimers
                     /\ heap[o].gameTimer = "armed" \/ tm[o].gameFired < MaxTimers
                     /\ heap' = [heap EXCEPT ![o] =
                                   StartGameTimer(RestartCardTimer(
                                     [heap[o] EXCEPT !.readyPlayers = ready,
                                                     !.isCardGameStarted = TRUE,
                                                     !.currentPlayerIndex = 0]))]
                     /\ lastEmit' = Emit("ReadyGame", o, InAnyRoom, Nil)
                ELSE /\ heap' = [heap EXCEPT ![o].readyPlayers = ready]
                     /\ lastEmit' = lastEmit

(***************************************************************************)
(* RingBell                                                                *)
(***************************************************************************)
\* the total count shown for fruit f on the tops of seats 0..n-1
RECURSIVE FruitTotal(_, _, _)
FruitTotal(room, f, n) ==
  IF n = 0 THEN 0
  ELSE FruitTotal(room, f, n - 1) +
       (IF room.publicFruitIndexes[n - 1] = f THEN room.publicFruitCounts[n - 1] ELSE 0)

\* a verdict that is also correct when a fruit's total exceeds fruitBellCount
IsBellRingingTime_AtLeast(room) ==
  \E f \in {room.publicFruitIndexes[i] : i \in DOMAIN room.publicFruitIndexes} \ {-1} :
    FruitTotal(room, f, Size(room.publicFruitIndexes)) >= room.fruitBellCount

\* Room.IsBellRingingTime, lines 1059-1084
IsBellRingingTime(room) ==
  \E f \in {room.publicFruitIndexes[i] : i \in DOMAIN room.publicFruitIndexes} \ {-1} :
    FruitTotal(room, f, Size(room.publicFruitIndexes)) = room.fruitBellCount

RECURSIVE SumTo(_, _)
SumTo(a, n) == IF n = 0 THEN 0 ELSE SumTo(a, n - 1) + a[n - 1]
SumAll(a) == SumTo(a, Size(a))

\* Room.AddAllPublicCardsToPlayer, lines 2239-2260
AddAllPublicCardsToPlayer(room, playerIndex) ==
  LET totalCards == SumAll(room.openCards)
      shown == DOMAIN room.publicFruitIndexes
  IN [room EXCEPT
        !.playerCards = [i \in DOMAIN room.playerCards |->
                           IF i = playerIndex THEN room.playerCards[i] + totalCards
                           ELSE room.playerCards[i]],
        !.publicFruitIndexes = [i \in shown |-> -1],
        !.publicFruitCounts = [i \in DOMAIN room.publicFruitCounts |->
                                 IF i \in shown THEN -1 ELSE room.publicFruitCounts[i]],
        !.openCards = [i \in DOMAIN room.openCards |->
                         IF i \in shown THEN 0 ELSE room.openCards[i]]]

\* a choice of receivers that ignores how many cards the slapper has
ReceiverChoices_AllOthers(room, playerIndex) ==
  {DOMAIN room.playerCards \ {playerIndex}}

\* the seats DistributeCardsFromPlayer can pick, lines 2272-2287: all other
\* seats, or any availableCards of them when the slapper has fewer cards
ReceiverChoices(room, playerIndex) ==
  LET others == DOMAIN room.playerCards \ {playerIndex}
      availableCards == room.playerCards[playerIndex]
  IN IF availableCards < Cardinality(others)
     THEN {r \in SUBSET others : Cardinality(r) = availableCards}
     ELSE {others}

\* Room.DistributeCardsFromPlayer, lines 2263-2301, for one choice of receivers:
\* the room afterwards and the cardGivenTo vector
DistributeCardsFromPlayer(room, playerIndex, receivers) ==
  IF playerIndex \notin DOMAIN room.playerCards
  THEN [room |-> room, given |-> [i \in DOMAIN room.playerCards |-> FALSE]]
  ELSE [room |-> [room EXCEPT !.playerCards =
                    [i \in DOMAIN room.playerCards |->
                       IF i = playerIndex THEN room.playerCards[i] - Cardinality(receivers)
                       ELSE IF i \in receivers THEN room.playerCards[i] + 1
                       ELSE room.playerCards[i]]],
        given |-> [i \in DOMAIN room.playerCards |-> i \in receivers]]

\* handleRingBell, lines 1531-1561: the checks and the latch; a slap on a
\* latched bell returns at line 1556 without a reply
RingLatch(c) ==
  /\ CanRequest(c)
  /\ nreq' = nreq + 1
  /\ UNCHANGED <<sync, clients, alive, cl, rooms, nalloc, tm, run, lastEmit, crashed>>
  /\ LET o == RoomAt(cl[c].RoomID) IN
     IF ~cl[c].IsInRoom \/ o = 0 \/ ~heap[o].isGameStarted
     THEN /\ SendErrorWithSignal(c, RequestRingBell)
          /\ UNCHANGED <<heap, pc, loc>>
     ELSE IF heap[o].bellRung
     THEN UNCHANGED <<reply, heap, pc, loc>>
     ELSE /\ reply' = reply
          /\ heap' = [heap EXCEPT ![o].bellRung = TRUE]
          /\ Goto(c, "ringCheck")
          /\ loc' = [loc EXCEPT ![c].room = o, ![c].playing = heap[o].isCardGameStarted]

\* lines 1563-1580: the verdict and the slapper's seat, each read under RLock,
\* then resetCardTimer
RingCheck(c) ==
  /\ At(c, "ringCheck")
  /\ LET o == loc[c].room
         room == heap[o]
     IN IF c \in DOMAIN room.playerIndexes
        THEN /\ room.cardTimer = "armed" \/ LiveCardTimers(o) < MaxTimers
             /\ loc' = [loc EXCEPT ![c].bell = IsBellRingingTime(room),
                                   ![c].idx = room.playerIndexes[c]]
             /\ heap' = [heap EXCEPT ![o] = ResetCardTimer(room)]
             /\ Goto(c, "ringPay")
             /\ reply' = reply
        ELSE /\ Return(c)
             /\ heap' = heap
             /\ SendErrorWithSignal(c, RequestRingBell)
  /\ UNCHANGED <<sync, clients, alive, cl, rooms, nalloc, tm, run, lastEmit, crashed, nreq>>

\* line 1585 or line 1620: the payout of a correct slap, the penalty of a wrong one
RingPay(c) ==
  /\ At(c, "ringPay")
  /\ LET o == loc[c].room
         room == heap[o]
     IN IF loc[c].bell
        THEN /\ heap' = [heap EXCEPT ![o] = AddAllPublicCardsToPlayer(room, loc[c].idx)]
             /\ loc' = [loc EXCEPT ![c].paid = heap'[o].playerCards]
        ELSE IF loc[c].idx \notin DOMAIN room.playerCards
        THEN /\ heap' = heap
             /\ loc' = [loc EXCEPT ![c].given =
                          DistributeCardsFromPlayer(room, loc[c].idx, {}).given,
                                   ![c].paid = room.playerCards]
        ELSE \E receivers \in ReceiverChoices(room, loc[c].idx) :
               LET d == DistributeCardsFromPlayer(room, loc[c].idx, receivers) IN
               /\ heap' = [heap EXCEPT ![o] = d.room]
               /\ loc' = [loc EXCEPT ![c].given = d.given,
                                     ![c].paid = d.room.playerCards]
  /\ Goto(c, "ringEmit")
  /\ UNCHANGED <<sync, reply, clients, alive, cl, rooms, nalloc, tm, run, lastEmit, crashed, nreq>>

\* a correct slap that ends the game whether or not the time has expired
EndsGameAfterCorrectBell_Always(room) == TRUE

\* lines 1592 and 1614: a correct slap ends the game when isTimeExpired is set
EndsGameAfterCorrectBell(room) == room.isTimeExpired

\* lines 1588-1617 or 1623-1646: copy the hand counts, broadcast the verdict,
\* and go on to endGame after a correct slap when the time has expired
RingEmit(c) ==
  /\ At(c, "ringEmit")
  /\ LET o == loc[c].room
         room == heap[o]
     IN IF loc[c].bell
        THEN /\ lastEmit' = Emit("BellCorrect", o, InAnyRoom,
                                 [idx |-> loc[c].idx, cards |-> room.playerCards])
             /\ IF EndsGameAfterCorrectBell(room)
                THEN Goto(c, "ringEnd") /\ loc' = loc
                ELSE Return(c)
        ELSE /\ lastEmit' = Emit("BellWrong", o, InAnyRoom,
                                 [idx |-> loc[c].idx, given |-> loc[c].given,
                                  cards |-> room.playerCards])
             /\ Return(c)
  /\ UNCHANGED <<sync, reply, clients, alive, cl, rooms, heap, nalloc, tm, run, crashed, nreq>>

\* line 1616: endGame, lines 2448-2452
RingEnd(c) ==
  /\ At(c, "ringEnd")
  /\ EndGameInternal(loc[c].room, heap[loc[c].room])
  /\ Return(c)
  /\ UNCHANGED <<sync, reply, clients, alive, rooms, nalloc, tm, run, crashed, nreq>>

(***************************************************************************)
(* Emotion                                                                 *)
(***************************************************************************)
\* handleEmotion, lines 1651-1742.  A sender that has an entry in
\* lastEmotionTimes may be inside the cooldown (ignored) or past it.
Emotion(c, cooledDown) ==
  /\ CanRequest(c)
  /\ nreq' = nreq + 1
  /\ UNCHANGED <<sync, clients, alive, cl, rooms, nalloc, tm, pc, loc, run, crashed>>
  /\ LET o == RoomAt(cl[c].RoomID) IN
     IF ~cl[c].IsInRoom \/ o = 0 \/ ~heap[o].isGameStarted
     THEN /\ SendErrorWithSignal(c, RequestEmotion)
          /\ UNCHANGED <<heap, lastEmit>>
     ELSE IF c \in heap[o].lastEmotionTimes /\ ~cooledDown
     THEN UNCHANGED <<reply, heap, lastEmit>>
     ELSE /\ heap' = [heap EXCEPT ![o].lastEmotionTimes = @ \cup {c}]
          /\ IF c \in DOMAIN heap[o].playerIndexes
             THEN /\ lastEmit' = Emit("Emotion", o, InAnyRoom, heap[o].playerIndexes[c])
                  /\ reply' = reply
             ELSE /\ lastEmit' = lastEmit
                  /\ SendErrorWithSignal(c, RequestEmotion)

(***************************************************************************)
(* GetRoomList                                                             *)
(***************************************************************************)
\* a listing that does not filter the started rooms out
ListedRooms_All == {id \in IdSpace : rooms[id] # 0}

\* handleGetRoomList, lines 1855-1874: the ids of the registered rooms whose
\* isGameStarted, read under the room's lock, is false
ListedRooms == {id \in IdSpace : rooms[id] # 0 /\ ~heap[rooms[id]].isGameStarted}

\* handleGetRoomList, lines 1848-1886, under roomMu.RLock from start to end
GetRoomList(c) ==
  /\ CanRequest(c)
  /\ nreq' = nreq + 1
  /\ lastEmit' = Emit("GetRoomList", 0, {c}, ListedRooms)
  /\ SendSuccess(c, RequestGetRoomList, FALSE)
  /\ UNCHANGED <<sync, clients, alive, cl, rooms, heap, nalloc, tm, pc, loc, run, crashed>>

(***************************************************************************)
(* Disconnect: the unregister branch of Handler.Run                        *)
(***************************************************************************)
\* a disconnect that takes the session out of the roster in every phase
UnregisteredRoom_Always(room, c) == [room EXCEPT !.players = @ \ {c}]

\* Run, lines 1294-1336: a member of a room that has not started leaves the
\* roster; the roster of a started game is left alone
UnregisteredRoom(room, c) ==
  IF room.isGameStarted THEN room ELSE [room EXCEPT !.players = @ \ {c}]

\* Run, lines 1273-1342: drop the connection from the registry; a member of a
\* room that has not started leaves its roster (the room is then deleted
\* under the key client.RoomID, which line 1309 has already set to 0)
Unregister(c) ==
  /\ CanRequest(c) /\ run.pc = "idle"
  /\ nreq' = nreq + 1
  /\ alive' = [alive EXCEPT ![c] = FALSE]
  /\ clients' = clients \ {c}
  /\ UNCHANGED <<sync, nalloc, tm, pc, loc, lastEmit, reply, crashed>>
  /\ LET o == RoomAt(cl[c].RoomID) IN
     IF ~cl[c].IsInRoom
     THEN UNCHANGED <<cl, rooms, heap, run>>
     ELSE /\ cl' = [cl EXCEPT ![c] = Client0]
          /\ IF o = 0
             THEN UNCHANGED <<rooms, heap, run>>
             ELSE /\ heap' = [heap EXCEPT ![o] = UnregisteredRoom(heap[o], c)]
                  /\ rooms' = IF ~heap[o].isGameStarted /\ heap'[o].players = {}
                              THEN DeleteRoom(cl'[c].RoomID)
                              ELSE rooms
                  /\ run' = [pc |-> "check", room |-> o]

\* a teardown that forgets to clear isGameStarted
TornDownRoom_StaysStarted(room) ==
  [room EXCEPT !.isCardGameStarted = FALSE,
               !.playerCards = Nil, !.readyPlayers = {}, !.readyNil = TRUE,
               !.publicFruitIndexes = Nil, !.publicFruitCounts = Nil,
               !.bellRung = FALSE, !.isTimeExpired = FALSE, !.playerIndexes = Nil,
               !.players = {}, !.cardTimer = "nil", !.cardInterval = 0]

\* checkAllPlayersDisconnected, lines 1388-1405: the room after the teardown
TornDownRoom(room) ==
  [room EXCEPT !.isGameStarted = FALSE, !.isCardGameStarted = FALSE,
               !.playerCards = Nil, !.readyPlayers = {}, !.readyNil = TRUE,
               !.publicFruitIndexes = Nil, !.publicFruitCounts = Nil,
               !.bellRung = FALSE, !.isTimeExpired = FALSE, !.playerIndexes = Nil,
               !.players = {}, !.cardTimer = "nil", !.cardInterval = 0]

\* checkAllPlayersDisconnected, lines 1364-1410, called at line 1345
CheckAllPlayersDisconnected ==
  /\ ~crashed /\ run.pc = "check"
  /\ heap' = IF heap[run.room].isGameStarted /\ InAnyRoom = {}
             THEN [heap EXCEPT ![run.room] = TornDownRoom(heap[run.room])]
             ELSE heap
  /\ run' = [pc |-> "idle", room |-> 0]
  /\ UNCHANGED <<sync, reply, clients, alive, cl, rooms, nalloc, tm, pc, loc, lastEmit, crashed, nreq>>

(***************************************************************************)
(* Locks: Handler.roomMu, Room.mu and Handler.mu                           *)
(***************************************************************************)
\* The three kinds of sync.RWMutex.  A task is in one critical section at a
\* time: a maximal stretch of code in which it holds at least one lock.
RoomMu == <<"roomMu", 0>>
RoomLock(o) == <<"room", o>>
Mu == <<"mu", 0>>
Step(a, l) == [a |-> a, l |-> l]

\* a section that holds one lock alone, e.g. handleEnterRoom 641-658
\* (roomMu.Lock), handleLeaveRoom 845-847 (roomMu.RLock), 860-862 (room.mu.Lock),
\* 901-903 (room.mu.RLock), notifyPlayerCountChanged 930-936 (mu.RLock),
\* Run 1274-1280 (mu.Lock)
SingleLock(kind, o) ==
  CASE kind = "roomMu.Lock"  -> <<Step("Lock", RoomMu), Step("Unlock", RoomMu)>>
    [] kind = "roomMu.RLock" -> <<Step("RLock", RoomMu), Step("RUnlock", RoomMu)>>
    [] kind = "room.Lock"    -> <<Step("Lock", RoomLock(o)), Step("Unlock", RoomLock(o))>>
    [] kind = "room.RLock"   -> <<Step("RLock", RoomLock(o)), Step("RUnlock", RoomLock(o))>>
    [] kind = "mu.Lock"      -> <<Step("Lock", Mu), Step("Unlock", Mu)>>
    [] kind = "mu.RLock"     -> <<Step("RLock", Mu), Step("RUnlock", Mu)>>
SingleLocks == {"roomMu.Lock", "roomMu.RLock", "room.Lock", "room.RLock", "mu.Lock", "mu.RLock"}

\* checkAndStartGame, lines 738-832: room.mu for the whole function (defer),
\* mu.RLock around the StartGame broadcast
checkAndStartGame_Locks(o) ==
  <<Step("Lock", RoomLock(o)), Step("RLock", Mu), Step("RUnlock", Mu), Step("Unlock", RoomLock(o))>>

\* openCard, lines 1444-1517: room.mu for the whole function (defer), mu.RLock
\* around the OpenCard broadcast
openCard_Locks(o) ==
  <<Step("Lock", RoomLock(o)), Step("RLock", Mu), Step("RUnlock", Mu), Step("Unlock", RoomLock(o))>>

\* endGame, lines 2449-2451, or openCard at line 1483, with endGameInternal:
\* under room.mu, mu.RLock around the EndGame broadcast (2401-2408) and again
\* around the reset of the clients (2425-2432)
endGame_Locks(o) ==
  <<Step("Lock", RoomLock(o)), Step("RLock", Mu), Step("RUnlock", Mu),
    Step("RLock", Mu), Step("RUnlock", Mu), Step("Unlock", RoomLock(o))>>

RECURSIVE EachRoom(_)
\* the loop of handleGetRoomList, lines 1855-1859, over the rooms 1..n
EachRoom(n) ==
  IF n = 0 THEN <<>>
  ELSE EachRoom(n - 1) \o <<Step("RLock", RoomLock(n)), Step("RUnlock", RoomLock(n))>>

\* handleGetRoomList, lines 1849-1859: roomMu.RLock for the whole function
\* (defer), room.mu.RLock for each room in turn
handleGetRoomList_Locks ==
  <<Step("RLock", RoomMu)>> \o EachRoom(MaxObjs) \o <<Step("RUnlock", RoomMu)>>

\* a count of the connected players that keeps mu while it takes room.mu
checkAllPlayersDisconnected_Locks_Nested(o) ==
  <<Step("RLock", RoomLock(o)), Step("RUnlock", RoomLock(o)),
    Step("RLock", Mu), Step("Lock", RoomLock(o)),
    Step("Unlock", RoomLock(o)), Step("RUnlock", Mu)>>

\* checkAllPlayersDisconnected, lines 1365-1406: room.mu.RLock (1365-1367),
\* then mu.RLock (1375-1382), then room.mu.Lock (1388-1406), one after another
checkAllPlayersDisconnected_Locks(o) ==
  <<Step("RLock", RoomLock(o)), Step("RUnlock", RoomLock(o)),
    Step("RLock", Mu), Step("RUnlock", Mu),
    Step("Lock", RoomLock(o)), Step("Unlock", RoomLock(o))>>

Regions == SingleLocks \cup {"checkAndStartGame", "openCard", "endGame",
                             "handleGetRoomList", "checkAllPlayersDisconnected"}

\* the lock operations of a region, in program order
RegionLocks(region, o) ==
  CASE region = "checkAndStartGame" -> checkAndStartGame_Locks(o)
    [] region = "openCard" -> openCard_Locks(o)
    [] region = "endGame" -> endGame_Locks(o)
    [] region = "handleGetRoomList" -> handleGetRoomList_Locks
    [] region = "checkAllPlayersDisconnected" -> checkAllPlayersDisconnected_Locks(o)
    [] region \in SingleLocks -> SingleLock(region, o)
    [] OTHER -> <<>>

\* the regions that work on one room; the others have no use for the parameter
UsesRoom(region) ==
  region \in {"room.Lock", "room.RLock", "checkAndStartGame", "openCard", "endGame",
              "checkAllPlayersDisconnected"}

Script(t) == RegionLocks(lk[t].region, lk[t].room)

RECURSIVE HeldAfter(_, _)
\* the locks held after the first i operations of a script, with their mode
HeldAfter(script, i) ==
  IF i = 0 THEN {}
  ELSE LET h == HeldAfter(script, i - 1)
           s == script[i]
       IN CASE s.a = "Lock"  -> h \cup {<<s.l, "W">>}
            [] s.a = "RLock" -> h \cup {<<s.l, "R">>}
            [] s.a = "Unlock"  -> h \ {<<s.l, "W">>}
            [] s.a = "RUnlock" -> h \ {<<s.l, "R">>}

Held(t) == HeldAfter(Script(t), lk[t].i)
HeldLocks(t) == {h[1] : h \in Held(t)}
InRegion(t) == lk[t].region # "idle"
NextStep(t) == Script(t)[lk[t].i + 1]
Acquires(t) == InRegion(t) /\ NextStep(t).a \in {"Lock", "RLock"}

\* sync.RWMutex: Lock waits for every holder; RLock waits for a writer that
\* holds the lock and also for one that is waiting for it
Holders(l, mode) == {u \in Tasks : <<l, mode>> \in Held(u)}
WaitingWriters(l) == {u \in Tasks : lk[u].waiting /\ NextStep(u).l = l}
Blockers(t) ==
  IF ~Acquires(t) THEN {}
  ELSE LET l == NextStep(t).l IN
       IF NextStep(t).a = "Lock"
       THEN (Holders(l, "W") \cup Holders(l, "R")) \ {t}
       ELSE (Holders(l, "W") \cup WaitingWriters(l)) \ {t}
\* a recursive acquisition waits for the task itself
SelfBlocked(t) ==
  /\ Acquires(t)
  /\ \/ NextStep(t).l \in HeldLocks(t) /\ NextStep(t).a = "Lock"
     \/ <<NextStep(t).l, "W">> \in Held(t)
Granted(t) == Acquires(t) /\ Blockers(t) = {} /\ ~SelfBlocked(t)

\* a task enters a critical section
EnterRegion(t, region, o) ==
  /\ ~InRegion(t)
  /\ UsesRoom(region) \/ o = 1
  /\ lk' = [lk EXCEPT ![t] = [region |-> region, room |-> o, i |-> 0, waiting |-> FALSE]]
  /\ UNCHANGED <<clients, alive, cl, rooms, heap, nalloc, tm, pc, loc, run, lastEmit,
                 reply, crashed, nreq, send, bc>>

\* Lock() on a lock that is held: the writer announces itself and waits
WaitLock(t) ==
  /\ Acquires(t) /\ NextStep(t).a = "Lock"
  /\ ~Granted(t) /\ ~lk[t].waiting
  /\ lk' = [lk EXCEPT ![t].waiting = TRUE]
  /\ UNCHANGED <<clients, alive, cl, rooms, heap, nalloc, tm, pc, loc, run, lastEmit,
                 reply, crashed, nreq, send, bc>>

\* Lock() or RLock() returns
AcquireLock(t) ==
  /\ Granted(t)
  /\ lk' = [lk EXCEPT ![t].i = @ + 1, ![t].waiting = FALSE]
  /\ UNCHANGED <<clients, alive, cl, rooms, heap, nalloc, tm, pc, loc, run, lastEmit,
                 reply, crashed, nreq, send, bc>>

\* Unlock() or RUnlock(); after the last one the task has left the section
ReleaseLock(t) ==
  /\ InRegion(t) /\ ~Acquires(t)
  /\ lk' = [lk EXCEPT ![t] = IF lk[t].i + 1 = Len(Script(t))
                             THEN NoLocks[t]
                             ELSE [@ EXCEPT !.i = @ + 1]]
  /\ UNCHANGED <<clients, alive, cl, rooms, heap, nalloc, tm, pc, loc, run, lastEmit,
                 reply, crashed, nreq, send, bc>>

(***************************************************************************)
(* Client.Send: sendToClient, writePump and the unregister branch of Run   *)
(***************************************************************************)
\* the read goroutine of connection c is inside sendToClient(c, ...): a direct
\* reply of a handler, e.g. handlePing line 593 or sendErrorWithSignal line 1216
DirectSender(c) == {t \in Tasks : bc[t].at # "idle" /\ bc[t].to = c /\ ~bc[t].locked}
\* tasks inside one of the loops over h.clients under mu.RLock
Iterating == {t \in Tasks : bc[t].at # "idle" /\ bc[t].locked}

\* a handler that runs on c's read goroutine replies to c; it holds no lock
StartDirect(t, c) ==
  /\ ~crashed /\ bc[t].at = "idle"
  /\ alive[c] /\ DirectSender(c) = {}
  /\ bc' = [bc EXCEPT ![t] = [at |-> "select", to |-> c, locked |-> FALSE]]
  /\ UNCHANGED <<clients, alive, cl, rooms, heap, nalloc, tm, pc, loc, run, lastEmit,
                 reply, crashed, nreq, lk, send>>

\* a loop over h.clients under mu.RLock comes to connection c, e.g. openCard
\* lines 1510-1517, notifyPlayerCountChanged 930-936, endGameInternal 2401-2408
StartBroadcast(t, c) ==
  /\ ~crashed /\ bc[t].at = "idle"
  /\ c \in clients
  /\ bc' = [bc EXCEPT ![t] = [at |-> "select", to |-> c, locked |-> TRUE]]
  /\ UNCHANGED <<clients, alive, cl, rooms, heap, nalloc, tm, pc, loc, run, lastEmit,
                 reply, crashed, nreq, lk, send>>

\* sendToClient, lines 1124-1126: the select.  A send on a closed channel
\* panics; with room in the buffer the frame is queued; a full buffer takes
\* the default branch
SelectSend(t) ==
  /\ ~crashed /\ bc[t].at = "select"
  /\ LET c == bc[t].to IN
     IF send[c].closed
     THEN /\ send' = [send EXCEPT ![c].fault = "send on closed channel"]
          /\ crashed' = TRUE
          /\ bc' = bc
     ELSE IF send[c].len < SendCap
     THEN /\ send' = [send EXCEPT ![c].len = @ + 1]
          /\ bc' = [bc EXCEPT ![t] = NoSends[t]]
          /\ crashed' = crashed
     ELSE /\ bc' = [bc EXCEPT ![t].at = "close"]
          /\ UNCHANGED <<send, crashed>>
  /\ UNCHANGED <<clients, alive, cl, rooms, heap, nalloc, tm, pc, loc, run, lastEmit,
                 reply, nreq, lk>>

\* sendToClient, line 1127: close(client.Send); closing a closed channel panics
EvictClose(t) ==
  /\ ~crashed /\ bc[t].at = "close"
  /\ LET c == bc[t].to IN
     IF send[c].closed
     THEN /\ send' = [send EXCEPT ![c].fault = "close of closed channel"]
          /\ crashed' = TRUE
          /\ bc' = bc
     ELSE /\ send' = [send EXCEPT ![c].closed = TRUE]
          /\ bc' = [bc EXCEPT ![t].at = "delete"]
          /\ crashed' = crashed
  /\ UNCHANGED <<clients, alive, cl, rooms, heap, nalloc, tm, pc, loc, run, lastEmit,
                 reply, nreq, lk>>

\* sendToClient, line 1128: delete(h.clients, client), with no lock or with
\* mu.RLock only.  While another task ranges over or writes the map the
\* runtime may stop the process (concurrent map iteration and map write).
EvictDelete(t, detected) ==
  /\ ~crashed /\ bc[t].at = "delete"
  /\ detected => (Iterating \ {t} # {} \/ \E u \in Tasks \ {t} : bc[u].at = "delete")
  /\ crashed' = detected
  /\ clients' = clients \ {bc[t].to}
  /\ bc' = [bc EXCEPT ![t] = NoSends[t]]
  /\ UNCHANGED <<alive, cl, rooms, heap, nalloc, tm, pc, loc, run, lastEmit,
                 reply, nreq, lk, send>>

\* writePump, lines 515-531: take one frame from the channel and write it
WritePump(c) ==
  /\ ~crashed /\ send[c].len > 0
  /\ send' = [send EXCEPT ![c].len = @ - 1]
  /\ UNCHANGED <<clients, alive, cl, rooms, heap, nalloc, tm, pc, loc, run, lastEmit,
                 reply, crashed, nreq, lk, bc>>

\* readPump, lines 481-484 and 496-500: ReadMessage fails between two
\* messages and the goroutine hands the connection to h.unregister
ReadEnd(c) ==
  /\ ~crashed /\ alive[c] /\ DirectSender(c) = {}
  /\ alive' = [alive EXCEPT ![c] = FALSE]
  /\ UNCHANGED <<clients, cl, rooms, heap, nalloc, tm, pc, loc, run, lastEmit,
                 reply, crashed, nreq, lk, send, bc>>

\* Run, lines 1273-1280, under mu.Lock: a connection that is still in
\* h.clients is deleted and its channel closed
RunUnregister(c) ==
  /\ ~crashed /\ ~alive[c] /\ c \in clients
  /\ Iterating = {}
  /\ clients' = clients \ {c}
  /\ IF send[c].closed
     THEN /\ send' = [send EXCEPT ![c].fault = "close of closed channel"]
          /\ crashed' = TRUE
     ELSE /\ send' = [send EXCEPT ![c].closed = TRUE]
          /\ crashed' = crashed
  /\ UNCHANGED <<alive, cl, rooms, heap, nalloc, tm, pc, loc, run, lastEmit,
                 reply, nreq, lk, bc>>

(***************************************************************************)
(* Specifications                                                          *)
(***************************************************************************)
\* the clients send only lobby requests
NextLobby ==
  \/ \E c \in Clients, frame \in Frames : HandleMessage(c, frame)
  \/ \E c \in Clients, rid \in RoomIdInputs : EnterCheck(c, rid)
  \/ \E c \in Clients : EnterAdd(c)
  \/ \E c \in Clients : EnterNotify(c)
  \/ \E c \in Clients : CheckAndStartGame(c)
  \/ \E c \in Clients : CreatePick(c)
  \/ \E c \in Clients, maxP \in MaxPlayerCountInputs, fv \in FruitVariationInputs,
        fb \in FruitCountInputs, tempo \in SpeedInputs : CreateRegister(c, maxP, fv, fb, tempo)
  \/ \E c \in Clients : CreateNotify(c)
  \/ \E c \in Clients : LeaveCheck(c)
  \/ \E c \in Clients : LeaveRemove(c)
  \/ \E c \in Clients : LeaveReset(c)
  \/ \E c \in Clients : LeaveNotify(c)
  \/ \E c \in Clients : GetRoomList(c)
  \/ \E c \in Clients : Unregister(c)
  \/ CheckAllPlayersDisconnected

SpecLobby == Init /\ [][NextLobby]_vars

\* the clients send only game requests
NextGame ==
  \/ \E c \in Clients : ReadyCheck(c)
  \/ \E c \in Clients : ReadyMark(c)
  \/ \E o \in Objs : CardTimerFire(o)
  \/ \E o \in Objs : OpenCard(o)
  \/ \E o \in Objs : GameTimerFire(o)
  \/ \E o \in Objs : GameTimerRun(o)
  \/ \E c \in Clients : RingLatch(c)
  \/ \E c \in Clients : RingCheck(c)
  \/ \E c \in Clients : RingPay(c)
  \/ \E c \in Clients : RingEmit(c)
  \/ \E c \in Clients : RingEnd(c)
  \/ \E c \in Clients, cooledDown \in BOOLEAN : Emotion(c, cooledDown)
  \/ \E c \in Clients : GetRoomList(c)
  \/ \E c \in Clients : Unregister(c)
  \/ CheckAllPlayersDisconnected

\* The states in which the game phase is entered: client 1 created room 1 for
\* two players and client 2 entered it, so checkAndStartGame started the game
\* (client 1 on seat 0, client 2 on seat 1; the other seat order is the same
\* up to the names of the two clients).  Every other client
\*   "out"   stayed outside, or
\*   "lobby" entered room 2, which the implicit create made, or
\*   "late"  passed the checks of EnterRoom for room 1 before client 2 joined
\*           and joined the roster after the game was started, or
\*   "ready" did the same and has sent ReadyGame since.
\* All handlers have returned.
Founders == {1, 2}
Others == Clients \ Founders
Stance == {"out", "lobby", "late", "ready"}

GameEntry(order, maxP, fv, fb, tempo, stance) ==
  LET late == {c \in Others : stance[c] \in {"late", "ready"}}
      lobby == {c \in Others : stance[c] = "lobby"}
      base == [NewRoom(1, maxP, fv, fb, tempo) EXCEPT !.players = Founders]
  IN
  /\ clients = Clients
  /\ alive = [c \in Clients |-> TRUE]
  /\ cl = [c \in Clients |->
             IF c \in Founders \cup late THEN [IsInRoom |-> TRUE, RoomID |-> 1]
             ELSE IF c \in lobby THEN [IsInRoom |-> TRUE, RoomID |-> 2]
             ELSE Client0]
  /\ rooms = [i \in IdSpace |-> IF i = 1 THEN 1 ELSE IF i = 2 /\ lobby # {} THEN 2 ELSE 0]
  /\ heap = [o \in Objs |->
               IF o = 1
               THEN [StartedRoom(base, order) EXCEPT
                       !.players = Founders \cup late,
                       !.readyPlayers = {c \in Others : stance[c] = "ready"}]
               ELSE IF o = 2 /\ lobby # {}
               THEN [NewRoom(2, DefaultMaxPlayers, DefaultFruitVariation,
                             DefaultFruitBellCount, DefaultGameTempo) EXCEPT !.players = lobby]
               ELSE NoRoom]
  /\ nalloc = IF lobby # {} THEN 2 ELSE 1
  /\ tm = [o \in Objs |-> NoTimers]
  /\ pc = [c \in Clients |-> "idle"]
  /\ loc = [c \in Clients |-> NoLoc]
  /\ run = [pc |-> "idle", room |-> 0]
  /\ lastEmit = IF late # {}
                THEN Emit("PlayerCountChanged", 1, Founders \cup late,
                          Cardinality(Founders \cup late))
                ELSE IF lobby # {}
                THEN Emit("PlayerCountChanged", 2, lobby, Cardinality(lobby))
                ELSE Emit("StartGame", 1, Founders, order)
  /\ reply = NoReply
  /\ lk = NoLocks
  /\ send = OpenChannels
  /\ bc = NoSends
  /\ crashed = FALSE

InitGame ==
  /\ \E maxP \in MaxPlayerCountInputs, fv \in FruitVariationInputs,
        fb \in FruitCountInputs, tempo \in SpeedInputs, stance \in [Others -> Stance] :
       GameEntry([c \in Founders |-> c - 1], maxP, fv, fb, tempo, stance)
  /\ nreq = 0

SpecGame == InitGame /\ [][NextGame]_vars

\* the clients send only RingBell and no timer expires
NextCards ==
  \/ \E c \in Clients : RingLatch(c)
  \/ \E c \in Clients : RingCheck(c)
  \/ \E c \in Clients : RingPay(c)
  \/ \E c \in Clients : RingEmit(c)
  \/ \E c \in Clients : RingEnd(c)

\* The states in which a slap is adjudicated: the first three clients are
\* seated in room 1 (client c on seat c - 1) and the card game runs.  Their
\* StartingCards cards each lie in the hands and the face-up piles in any way;
\* a seat with an empty pile shows no card (-1, -1), every other seat shows any
\* card; the game time may have expired.  All handlers have returned and the
\* events sent so far are not recorded.
TableClients == {c \in Clients : c <= 3}

CardTable(maxP, fv, fb, tempo, hands, piles, fruits, counts, expired) ==
  /\ clients = Clients
  /\ alive = [c \in Clients |-> TRUE]
  /\ cl = [c \in Clients |->
             IF c \in TableClients THEN [IsInRoom |-> TRUE, RoomID |-> 1] ELSE Client0]
  /\ rooms = [i \in IdSpace |-> IF i = 1 THEN 1 ELSE 0]
  /\ heap = [o \in Objs |->
               IF o = 1
               THEN [StartedRoom([NewRoom(1, maxP, fv, fb, tempo) EXCEPT !.players = TableClients],
                                 [c \in TableClients |-> c - 1])
                       EXCEPT !.readyPlayers = TableClients,
                              !.isCardGameStarted = TRUE,
                              !.playerCards = hands, !.openCards = piles,
                              !.publicFruitIndexes = fruits, !.publicFruitCounts = counts,
                              !.cardTimer = "armed",
                              !.cardInterval = getGameTempoInterval(tempo),
                              !.gameTimer = IF expired THEN "stale" ELSE "armed",
                              !.isTimeExpired = expired]
               ELSE NoRoom]
  /\ nalloc = 1
  /\ tm = [o \in Objs |-> NoTimers]
  /\ pc = [c \in Clients |-> "idle"]
  /\ loc = [c \in Clients |-> NoLoc]
  /\ run = [pc |-> "idle", room |-> 0]
  /\ lastEmit = NoEmit
  /\ reply = NoReply
  /\ lk = NoLocks
  /\ send = OpenChannels
  /\ bc = NoSends
  /\ crashed = FALSE
  /\ nreq = 0

InitCards ==
  LET n == Cardinality(TableClients)
      total == n * StartingCards
  IN \E fv \in FruitVariationInputs, fb \in FruitCountInputs, tempo \in SpeedInputs :
     \E hands \in [Seats(n) -> 0..total] :
     \E piles \in [Seats(n) -> 0..total] :
       /\ SumAll(hands) + SumAll(piles) = total
       /\ \E fruits \in [Seats(n) -> {-1} \cup Seats(fv)] :
            /\ \A i \in Seats(n) : (piles[i] = 0) <=> (fruits[i] = -1)
            /\ \E counts \in [Seats(n) -> {-1} \cup (1..MaxFruitCount)] :
                 /\ \A i \in Seats(n) : (fruits[i] = -1) <=> (counts[i] = -1)
                 /\ \E expired \in BOOLEAN :
                      CardTable(n, fv, fb, tempo, hands, piles, fruits, counts, expired)

SpecCards == InitCards /\ [][NextCards]_vars

\* Scheduling of the game phase: a timer that is armed expires, a callback
\* that was started runs (time.AfterFunc starts it in a goroutine of its
\* own), a handler that has begun goes on, and Run finishes its branch.
\* Nothing makes a client send a request.
FairGame ==
  /\ \A o \in Objs : /\ WF_vars(CardTimerFire(o)) /\ WF_vars(OpenCard(o))
                      /\ WF_vars(GameTimerFire(o)) /\ WF_vars(GameTimerRun(o))
  /\ \A c \in Clients : WF_vars(ReadyMark(c) \/ RingCheck(c) \/ RingPay(c)
                                  \/ RingEmit(c) \/ RingEnd(c))
  /\ WF_vars(CheckAllPlayersDisconnected)

SpecGameFair == InitGame /\ [][NextGame]_vars /\ FairGame

\* the tasks only take and release locks
NextLocks ==
  \/ \E t \in Tasks, region \in Regions, o \in Objs : EnterRegion(t, region, o)
  \/ \E t \in Tasks : WaitLock(t)
  \/ \E t \in Tasks : AcquireLock(t)
  \/ \E t \in Tasks : ReleaseLock(t)

SpecLocks == Init /\ [][NextLocks]_vars

\* the tasks only send frames; connections drain their channels and drop
NextSend ==
  \/ \E t \in Tasks, c \in Clients : StartDirect(t, c)
  \/ \E t \in Tasks, c \in Clients : StartBroadcast(t, c)
  \/ \E t \in Tasks : SelectSend(t)
  \/ \E t \in Tasks : EvictClose(t)
  \/ \E t \in Tasks, detected \in BOOLEAN : EvictDelete(t, detected)
  \/ \E c \in Clients : WritePump(c)
  \/ \E c \in Clients : ReadEnd(c)
  \/ \E c \in Clients : RunUnregister(c)

SpecSend == Init /\ [][NextSend]_vars

Next == NextLobby \/ NextGame \/ NextCards \/ NextLocks \/ NextSend
Spec == Init /\ [][Next]_vars

(***************************************************************************)
(* Properties                                                              *)
(***************************************************************************)
Total(room) == SumAll(room.playerCards) + SumAll(room.openCards)
RoomEvents == {"OpenCard", "BellCorrect", "BellWrong", "Emotion", "ReadyGame", "EndGame"}
\* the step of room object o is a reveal: one more card lies face up
IsReveal(o) == /\ heap[o].isCardGameStarted /\ heap'[o].isCardGameStarted
               /\ SumAll(heap'[o].openCards) = SumAll(heap[o].openCards) + 1

\* C1 Bell latch: a slap is accepted only while bell_rung is false and sets it;
\* every slap accepted in PLAYING is followed by exactly one BellCorrect or
\* BellWrong of its handler; while the room stays in PLAYING bell_rung is
\* cleared by a reveal step only.
C1_BellLatch ==
  [][/\ \A c \in Clients :
          /\ (pc[c] = "idle" /\ pc'[c] = "ringCheck")
               => (~heap[loc'[c].room].bellRung /\ heap'[loc'[c].room].bellRung)
          /\ (pc[c] = "ringCheck" /\ loc[c].playing) => pc'[c] # "idle"
          /\ (pc[c] = "ringEmit" /\ pc'[c] # "ringEmit")
               => lastEmit'.sig \in {"BellCorrect", "BellWrong"}
     /\ \A o \in Objs :
          (/\ heap[o].isCardGameStarted /\ heap'[o].isCardGameStarted
           /\ heap[o].bellRung /\ ~heap'[o].bellRung) => IsReveal(o)
    ]_vars

\* C2 Bell/reveal ordering: no reveal step of the room happens between the
\* acceptance of a slap (bell_rung set) and the emission of its BellCorrect or
\* BellWrong.
C2_NoRevealBeforeVerdict ==
  \A c \in Clients : pc[c] \in RingPcs => ~loc[c].revealed

\* C3 Card conservation across reveals: a reveal step moves one card from the
\* revealing seat's hand to its own face-up pile, so the sum over all seats of
\* hand + face-up pile size is unchanged.
C3_RevealConserves ==
  [][\A o \in Objs :
       (OpenCard(o) /\ heap[o].isCardGameStarted /\ heap'[o].isCardGameStarted
          /\ heap[o].players # {} /\ ~crashed')
       => /\ Total(heap'[o]) = Total(heap[o])
          /\ \E i \in DOMAIN heap[o].playerCards :
               /\ heap'[o].playerCards = [heap[o].playerCards EXCEPT ![i] = @ - 1]
               /\ heap'[o].openCards = [heap[o].openCards EXCEPT ![i] = @ + 1]
    ]_vars
\* a room in the card game in which two reveals have happened since the last payout
C3_Witness ==
  \E o \in Objs : heap[o].isCardGameStarted /\ SumAll(heap[o].openCards) >= 2

\* C4 Timer uniqueness: every room has at most one pending reveal timer and at
\* most one pending game timer.
C4_TimerUniqueness ==
  \A o \in Objs : PendingCardTimers(o) <= 1 /\ PendingGameTimers(o) <= 1

\* C5 Room-scoped fan-out: every OpenCard, BellCorrect, BellWrong, Emotion,
\* ReadyGame and EndGame of a room is delivered to exactly the registered
\* connections that are members of that room.
C5_RoomScopedFanOut ==
  [][(lastEmit' # lastEmit /\ lastEmit'.sig \in RoomEvents)
       => lastEmit'.to = clients \cap heap[lastEmit'.room].players
    ]_vars

\* C6 Roster bound: no roster is larger than the room's max_players, and no
\* session is added to the roster of a started game.
C6_RosterBound ==
  [][\A o \in Objs :
       /\ Cardinality(heap'[o].players) <= heap'[o].maxPlayers
       /\ (heap[o].isGameStarted /\ heap'[o].isGameStarted)
            => heap'[o].players \subseteq heap[o].players
    ]_vars

\* C7 (as stated) Seat stability: after StartGame the seat index of every seated
\* session is unchanged by every operation until EndGame is emitted for the room.
C7_SeatsUntilEndGame ==
  [][\A o \in Objs :
       (heap[o].isGameStarted /\ heap'[o].playerIndexes # heap[o].playerIndexes)
       => (lastEmit'.sig = "EndGame" /\ lastEmit'.room = o)
    ]_vars
\* C7 (amended) Seat stability: for as long as the game of a room stays started
\* no operation changes the seat index of any seated session; the mapping is only
\* ever discarded as a whole, together with the started flag (EndGame, the
\* teardown after the last registered member dropped, or a reset).
C7_SeatsWhileStarted ==
  [][\A o \in Objs :
       /\ (heap[o].isGameStarted /\ heap'[o].isGameStarted)
            => heap'[o].playerIndexes = heap[o].playerIndexes
       /\ (heap[o].isGameStarted /\ ~heap'[o].isGameStarted)
            => heap'[o].playerIndexes = Nil
    ]_vars
\* a card game is running, a seated session has dropped and the seats are kept
C7_Witness ==
  \E o \in Objs :
    /\ heap[o].isCardGameStarted /\ SumAll(heap[o].openCards) >= 1
    /\ \E c \in DOMAIN heap[o].playerIndexes : ~alive[c] /\ heap[o].playerIndexes[c] = c - 1

\* C8 Auto-start: when the EnterRoom that brought the roster to max_players has
\* run checkAndStartGame the room has left LOBBY, and the StartGame it sends goes
\* to every member with pairwise distinct myIndex values covering 0..N-1.
C8_AutoStart ==
  [][\A c \in Clients :
       (pc[c] = "enterStart" /\ pc'[c] = "idle"
          /\ loc[c].count = heap[loc[c].room].maxPlayers)
       => LET o == loc[c].room IN
          /\ heap'[o].isGameStarted
          /\ ~heap[o].isGameStarted =>
               /\ lastEmit'.sig = "StartGame"
               /\ lastEmit'.to = heap[o].players
               /\ {lastEmit'.data[d] : d \in lastEmit'.to} = Seats(heap[o].maxPlayers)
    ]_vars

\* C9 Ready transition happens once: the room enters the card game when every
\* seated session has sent ReadyGame, and a ReadyGame handled after that does
\* not broadcast ReadyGame again, does not reset next_seat and does not restart
\* a timer.
C9_ReadyOnce ==
  [][\A c \in Clients :
       (pc[c] = "readyMark" /\ pc'[c] = "idle") =>
         LET o == loc[c].room IN
         /\ (~heap[o].isCardGameStarted /\ heap'[o].isCardGameStarted)
              => DOMAIN heap[o].playerIndexes \subseteq heap'[o].readyPlayers
         /\ heap[o].isCardGameStarted
              => /\ lastEmit' = lastEmit
                 /\ heap'[o].currentPlayerIndex = heap[o].currentPlayerIndex
                 /\ heap'[o].cardTimer = heap[o].cardTimer
                 /\ heap'[o].gameTimer = heap[o].gameTimer
    ]_vars

\* C10 Time-expiry end rule: a slap ends the game (EndGame, room reset) exactly
\* when it is correct and time_expired is set when its verdict is broadcast; a
\* wrong slap never ends the game; the game timer's callback only sets
\* time_expired and leaves the reveal timers alone.
C10_TimeExpiryEndRule ==
  [][/\ \A c \in Clients :
          LET o == loc[c].room IN
          /\ (pc[c] = "ringEmit" /\ pc'[c] # "ringEmit") =>
               /\ (pc'[c] = "ringEnd") <=> (loc[c].bell /\ heap[o].isTimeExpired)
               /\ lastEmit'.sig = IF loc[c].bell THEN "BellCorrect" ELSE "BellWrong"
               /\ heap'[o] = heap[o]
          /\ (pc[c] = "ringEnd" /\ pc'[c] # "ringEnd") =>
               /\ lastEmit'.sig = "EndGame" /\ lastEmit'.room = o
               /\ ~heap'[o].isGameStarted /\ ~heap'[o].isCardGameStarted
               /\ heap'[o].playerCards = Nil
     /\ \A o \in Objs :
          tm'[o].gameFired < tm[o].gameFired =>
            /\ heap'[o] = [heap[o] EXCEPT !.isTimeExpired = TRUE]
            /\ tm'[o] = [tm[o] EXCEPT !.gameFired = @ - 1]
    ]_vars
\* a correct slap was broadcast with time_expired set: its handler is about to end the game
C10_Witness ==
  \E c \in Clients : pc[c] = "ringEnd" /\ loc[c].bell /\ heap[loc[c].room].isCardGameStarted

\* C11 Reveal exhaustion: when openCard runs in the card game and every seat's
\* hand is empty, no card is revealed, every seat gets its own face-up pile back
\* and EndGame is emitted with these restored hand counts and their ranks.
C11_RevealExhaustion ==
  [][\A o \in Objs :
       (/\ tm'[o].cardFired < tm[o].cardFired
        /\ heap[o].isCardGameStarted /\ heap[o].players # {}
        /\ \A i \in DOMAIN heap[o].playerCards : heap[o].playerCards[i] = 0)
       => LET restored == [i \in DOMAIN heap[o].playerCards |->
                             heap[o].playerCards[i] + heap[o].openCards[i]]
          IN /\ ~crashed'
             /\ lastEmit'.sig = "EndGame" /\ lastEmit'.room = o
             /\ lastEmit'.data.cards = restored
             /\ lastEmit'.data.ranks = calculatePlayerRanks(restored)
             /\ ~heap'[o].isCardGameStarted
    ]_vars

\* C12 Destruction on game end: the step that ends a game with EndGame removes
\* the room from the registry, so its id names no room afterwards.
C12_DestroyedOnEnd ==
  [][\A o \in Objs :
       (/\ heap[o].isGameStarted /\ ~heap'[o].isGameStarted
        /\ lastEmit'.sig = "EndGame" /\ lastEmit'.room = o)
       => rooms'[heap[o].ID] = 0
    ]_vars

\* C13 Room listing: every room a GetRoomList reply contains is registered and
\* in LOBBY (its game is neither started nor in the card game) when the handler
\* builds the reply; a room in STARTING or PLAYING is not in it.
C13_ListOnlyLobby ==
  [][\A c \in Clients :
       GetRoomList(c) =>
         /\ lastEmit'.sig = "GetRoomList" /\ lastEmit'.to = {c}
         /\ \A id \in lastEmit'.data :
              /\ rooms[id] # 0
              /\ ~heap[rooms[id]].isGameStarted /\ ~heap[rooms[id]].isCardGameStarted
         /\ \A id \in IdSpace :
              (rooms[id] # 0 /\ heap[rooms[id]].isGameStarted) => id \notin lastEmit'.data
    ]_vars
\* a reply that lists a lobby room while another registered room is in a game
C13_Witness ==
  /\ lastEmit.sig = "GetRoomList" /\ lastEmit.data # {}
  /\ \E id \in IdSpace : /\ rooms[id] # 0 /\ heap[rooms[id]].isCardGameStarted
                         /\ id \notin lastEmit.data

\* the registered connections that are members of room object o
Attached(o) ==
  {d \in clients : d \in heap[o].players /\ cl[d].IsInRoom /\ cl[d].RoomID = heap[o].ID}

C15_AllDroppedTeardown ==
  [][(/\ run.pc = "check" /\ run'.pc = "idle"
      /\ heap[run.room].isGameStarted /\ Attached(run.room) = {})
     => /\ heap'[run.room].players = {}
        /\ ~heap'[run.room].isGameStarted /\ ~heap'[run.room].isCardGameStarted
        /\ heap'[run.room].cardTimer # "armed"
    ]_vars

\* the sum of the top counts of the seats in S whose top shows fruit f
RECURSIVE TopSum(_, _, _)
TopSum(room, f, S) ==
  IF S = {} THEN 0
  ELSE LET i == CHOOSE x \in S : TRUE
       IN (IF room.publicFruitIndexes[i] = f THEN room.publicFruitCounts[i] ELSE 0)
          + TopSum(room, f, S \ {i})
\* some fruit's top counts add up to the bell target
TargetReached(room) ==
  \E f \in Seats(room.fruitVariation) :
    TopSum(room, f, {i \in DOMAIN room.publicFruitIndexes : room.publicFruitIndexes[i] # -1})
      = room.fruitBellCount

C17_CorrectBellPayout ==
  [][\A c \in Clients :
       LET o == loc[c].room
           s == loc[c].idx
       IN /\ (/\ pc[c] = "ringPay" /\ pc'[c] = "ringEmit" /\ loc[c].bell
              /\ s \in DOMAIN heap[o].playerCards)
               => /\ heap'[o].playerCards =
                       [heap[o].playerCards EXCEPT ![s] = @ + SumAll(heap[o].openCards)]
                  /\ \A i \in DOMAIN heap[o].playerCards :
                       /\ heap'[o].openCards[i] = 0
                       /\ heap'[o].publicFruitIndexes[i] = -1
                       /\ heap'[o].publicFruitCounts[i] = -1
          /\ (pc[c] = "ringEmit" /\ pc'[c] # "ringEmit" /\ loc[c].bell)
               => /\ lastEmit'.sig = "BellCorrect" /\ lastEmit'.data.idx = s
                  /\ lastEmit'.data.cards = loc[c].paid
    ]_vars

\* the smaller of two numbers
Min(a, b) == IF a < b THEN a ELSE b

\* C18 Wrong-bell penalty: the penalty of a wrong slap by seat s with h cards
\* among N seats marks exactly min(h, N-1) seats in cardGivenTo, never s itself;
\* each marked seat gains exactly one card, every other seat but s keeps its
\* hand, hand[s] drops by exactly min(h, N-1) and is not negative, and the
\* face-up piles and tops are unchanged; BellWrong carries this cardGivenTo.
C18_WrongBellPenalty ==
  [][\A c \in Clients :
       LET o == loc[c].room
           s == loc[c].idx
           hand == heap[o].playerCards
           k == Min(hand[s], Size(hand) - 1)
           given == loc'[c].given
       IN /\ (/\ pc[c] = "ringPay" /\ pc'[c] = "ringEmit" /\ ~loc[c].bell
              /\ s \in DOMAIN hand)
               => /\ DOMAIN given = DOMAIN hand
                  /\ Cardinality({i \in DOMAIN given : given[i]}) = k
                  /\ ~given[s]
                  /\ \A i \in DOMAIN hand \ {s} :
                       heap'[o].playerCards[i] = hand[i] + (IF given[i] THEN 1 ELSE 0)
                  /\ heap'[o].playerCards[s] = hand[s] - k
                  /\ heap'[o].playerCards[s] >= 0
                  /\ heap'[o].openCards = heap[o].openCards
                  /\ heap'[o].publicFruitIndexes = heap[o].publicFruitIndexes
                  /\ heap'[o].publicFruitCounts = heap[o].publicFruitCounts
          /\ (pc[c] = "ringEmit" /\ pc'[c] # "ringEmit" /\ ~loc[c].bell)
               => /\ lastEmit'.sig = "BellWrong" /\ lastEmit'.data.idx = s
                  /\ lastEmit'.data.given = loc[c].given
    ]_vars
\* a wrong slap of a seat with one card and two other seats: one seat was paid
C18_Witness ==
  \E c \in Clients :
    /\ pc[c] = "ringEmit" /\ ~loc[c].bell
    /\ Size(loc[c].given) = 3
    /\ Cardinality({i \in DOMAIN loc[c].given : loc[c].given[i]}) = 1
    /\ heap[loc[c].room].playerCards[loc[c].idx] = 0

\* standard competition ranking by descending card count
CompetitionRanks(cards) ==
  [i \in DOMAIN cards |-> 1 + Cardinality({j \in DOMAIN cards : cards[j] > cards[i]})]

\* C19 Ranking: for every vector of hand counts the ranks are the standard
\* competition ranking by descending count (rank = 1 + number of seats with a
\* strictly larger count), both for the ranking function on every hand vector
\* of a game and for the ranks an EndGame event carries.
C19_Ranking ==
  /\ \A o \in Objs :
       heap[o].playerCards # Nil
         => calculatePlayerRanks(heap[o].playerCards) = CompetitionRanks(heap[o].playerCards)
  /\ lastEmit.sig = "EndGame"
       => lastEmit.data.ranks = CompetitionRanks(lastEmit.data.cards)
\* an EndGame in which two seats share a rank
C19_Witness ==
  /\ lastEmit.sig = "EndGame"
  /\ \E i, j \in DOMAIN lastEmit.data.ranks :
       i # j /\ lastEmit.data.ranks[i] = lastEmit.data.ranks[j]

\* C20 Reveal cadence after a bell: the handler of an accepted slap re-arms the
\* reveal timer with the room's own tempo interval, so the next OpenCard comes
\* no earlier than one tempo interval after the bell.
C20_CadenceAfterBell ==
  [][\A c \in Clients :
       (pc[c] = "ringCheck" /\ pc'[c] = "ringPay")
       => /\ heap'[loc[c].room].cardTimer = "armed"
          /\ heap'[loc[c].room].cardInterval
               = getGameTempoInterval(heap[loc[c].room].gameTempo)
    ]_vars

\* C21 Fresh room ids: every successful CreateRoom registers its room under
\* 1 + the largest id in the registry (1 when the registry is empty) and never
\* under an id that is registered; two CreateRoom requests handled concurrently
\* get distinct ids and both rooms stay in the registry.
C21_FreshRoomIds ==
  [][\A c \in Clients :
       (pc[c] = "createReg" /\ pc'[c] = "createNotify")
       => LET id == heap'[loc'[c].room].ID IN
          /\ rooms[id] = 0
          /\ id = NewRoomID
          /\ \A i \in IdSpace : rooms[i] # 0 => rooms'[i] = rooms[i]
    ]_vars

\* the ids the registry holds
Registered == {id \in IdSpace : rooms[id] # 0}

\* C22 Room cap: the registry never holds more rooms than the cap; a CreateRoom
\* issued when the cap is reached is rejected with code 400 and creates no room.
C22_RoomCap ==
  [][/\ Cardinality(Registered') <= MaxRooms
     /\ \A c \in Clients :
          (CreatePick(c) /\ Cardinality(Registered) >= MaxRooms)
          => /\ reply' = [to |-> c, sig |-> RequestCreateRoom, code |-> CodeError,
                          empty |-> TRUE, n |-> reply.n + 1]
             /\ pc'[c] = "idle"
    ]_vars

\* C23 No leave after start: a LeaveRoom from a member of a room whose game has
\* started is answered with code 400 and removes nobody; in every interleaving
\* with an EnterRoom that fills the room, no step of a LeaveRoom handler reduces
\* the roster of a started game or resets the started game's state.
C23_NoLeaveAfterStart ==
  [][\A c \in Clients :
       /\ (/\ LeaveCheck(c) /\ cl[c].IsInRoom /\ RoomAt(cl[c].RoomID) # 0
           /\ heap[RoomAt(cl[c].RoomID)].isGameStarted)
            => /\ reply' = [to |-> c, sig |-> RequestLeaveRoom, code |-> CodeError,
                            empty |-> TRUE, n |-> reply.n + 1]
               /\ pc'[c] = "idle" /\ heap' = heap /\ cl' = cl /\ rooms' = rooms
       /\ (pc[c] \in {"leaveRemove", "leaveReset"} /\ pc'[c] # pc[c]
           /\ heap[loc[c].room].isGameStarted)
            => heap'[loc[c].room] = heap[loc[c].room]
    ]_vars

C25_LatchedBellReply ==
  [][\A c \in Clients :
       LET o == RoomAt(cl[c].RoomID) IN
       (/\ RingLatch(c) /\ cl[c].IsInRoom /\ o # 0
        /\ heap[o].isGameStarted /\ heap[o].bellRung)
       => /\ reply' = [to |-> c, sig |-> 2001, code |-> 400, empty |-> TRUE, n |-> reply.n + 1]
          /\ heap' = heap /\ tm' = tm /\ rooms' = rooms
    ]_vars

FirstSeatWithCards(hand, from, n) ==
  LET k == CHOOSE k \in 0..(n - 1) :
             /\ hand[(from + k) % n] > 0
             /\ \A j \in 0..(k - 1) : hand[(from + j) % n] = 0
  IN (from + k) % n

\* C27 Reveal seat selection: each reveal step that emits an OpenCard reveals
\* for the first seat, scanning cyclically from next_seat, whose hand is not
\* empty; a seat with an empty hand never reveals; after the step next_seat is
\* (revealing seat + 1) mod N and bell_rung is false, N being the number of
\* seats fixed at game start.
C27_RevealSeatSelection ==
  [][\A o \in Objs :
       (/\ tm'[o].cardFired < tm[o].cardFired
        /\ lastEmit' # lastEmit /\ lastEmit'.sig = "OpenCard" /\ lastEmit'.room = o)
       => LET hand == heap[o].playerCards
              n == Size(hand)
              s == lastEmit'.data[3]
          IN /\ s \in DOMAIN hand /\ hand[s] > 0
             /\ s = FirstSeatWithCards(hand, heap[o].currentPlayerIndex, n)
             /\ heap'[o].playerCards[s] = hand[s] - 1
             /\ heap'[o].currentPlayerIndex = (s + 1) % n
             /\ ~heap'[o].bellRung
    ]_vars

\* C28 PLAYING initial state: at the moment a room enters the card game (every
\* seated session has readied) every hand holds starting_cards, every face-up
\* slot is empty (-1, -1, 0), next_seat = 0, bell_rung = false and
\* time_expired = false, for every game the room plays.
C28_PlayingInitialState ==
  [][\A o \in Objs :
       (~heap[o].isCardGameStarted /\ heap'[o].isCardGameStarted)
       => LET room == heap'[o] IN
          /\ \A i \in DOMAIN room.playerCards :
               /\ room.playerCards[i] = StartingCards
               /\ room.publicFruitIndexes[i] = -1
               /\ room.publicFruitCounts[i] = -1
               /\ room.openCards[i] = 0
          /\ DOMAIN room.playerCards = Seats(Cardinality(DOMAIN room.playerIndexes))
          /\ room.currentPlayerIndex = 0
          /\ ~room.bellRung
          /\ ~room.isTimeExpired
    ]_vars

\* C29 Timers die with the game: when a room leaves PLAYING (game end, or the
\* teardown after every attached session dropped) no reveal timer and no game
\* timer of it stays pending, and no timer callback changes the state of a
\* room whose game is over (no later reveal, no later setting of time_expired).
C29_TimersDieWithGame ==
  [][\A o \in Objs :
       /\ (heap[o].isCardGameStarted /\ ~heap'[o].isCardGameStarted)
            => /\ heap'[o].cardTimer # "armed" /\ tm'[o].cardOrphans = 0
               /\ heap'[o].gameTimer # "armed"
       /\ (/\ ~heap[o].isGameStarted
           /\ \/ tm'[o].cardFired < tm[o].cardFired
              \/ tm'[o].gameFired < tm[o].gameFired)
            => heap'[o] = heap[o]
    ]_vars

\* C30 Bell only in PLAYING: a RingBell of a seated session whose room is in
\* STARTING (started, the card game not yet running) is not adjudicated: the
\* handler returns at once with bell_rung still false, and no step of it
\* changes a hand count, arms the reveal timer or emits BellCorrect/BellWrong.
C30_BellOnlyInPlaying ==
  [][\A c \in Clients :
       /\ LET o == RoomAt(cl[c].RoomID) IN
          (/\ RingLatch(c)
           /\ cl[c].IsInRoom /\ o # 0
           /\ heap[o].isGameStarted /\ ~heap[o].isCardGameStarted
           /\ c \in DOMAIN heap[o].playerIndexes)
            => /\ ~heap'[o].bellRung
               /\ pc'[c] = "idle"
       /\ (/\ pc[c] \in {"ringCheck", "ringPay", "ringEmit"}
           /\ pc'[c] # pc[c]
           /\ ~loc[c].playing)
            => /\ heap'[loc[c].room].playerCards = heap[loc[c].room].playerCards
               /\ heap'[loc[c].room].cardTimer = heap[loc[c].room].cardTimer
               /\ lastEmit'.sig \notin {"BellCorrect", "BellWrong"} \/ lastEmit' = lastEmit
    ]_vars

\* C31 Atomic adjudication: between the step that sets bell_rung for an
\* accepted slap and the step that applies its payout, no step of another
\* operation (a reveal, another slap's payout, the end of the game) changes
\* the room's face-up piles, its hand counts or bell_rung.
C31_AtomicAdjudication ==
  [][\A c \in Clients :
       (/\ pc[c] \in {"ringCheck", "ringPay"}
        /\ loc[c].playing
        /\ pc'[c] = pc[c])
         => LET o == loc[c].room IN
            /\ heap'[o].playerCards = heap[o].playerCards
            /\ heap'[o].openCards = heap[o].openCards
            /\ heap'[o].publicFruitIndexes = heap[o].publicFruitIndexes
            /\ heap'[o].publicFruitCounts = heap[o].publicFruitCounts
            /\ heap'[o].bellRung = heap[o].bellRung
    ]_vars

\* C32 Disconnect in LOBBY notifies: when a member of a room that has not
\* started disconnects and other members remain, the disconnect removes it
\* from the roster and sends every remaining member a PlayerCountChanged that
\* carries the new roster size, as an explicit LeaveRoom does.
C32_DisconnectNotifies ==
  [][\A c \in Clients :
       LET o == RoomAt(cl[c].RoomID) IN
       (/\ Unregister(c)
        /\ cl[c].IsInRoom /\ o # 0
        /\ ~heap[o].isGameStarted
        /\ c \in heap[o].players
        /\ heap[o].players \ {c} # {})
         => /\ heap'[o].players = heap[o].players \ {c}
            /\ lastEmit'.sig = "PlayerCountChanged"
            /\ lastEmit'.room = o
            /\ heap'[o].players \subseteq lastEmit'.to
            /\ lastEmit'.data = Cardinality(heap'[o].players)
    ]_vars

\* C33 Empty LOBBY room is destroyed on disconnect: when the only member of a
\* room that has not started disconnects, the room's id is removed from the
\* room registry, so GetRoomList no longer lists it.
C33_EmptyRoomDestroyed ==
  [][\A c \in Clients :
       LET id == cl[c].RoomID
           o == RoomAt(id)
       IN (/\ Unregister(c)
           /\ cl[c].IsInRoom /\ o # 0
           /\ ~heap[o].isGameStarted
           /\ heap[o].players = {c})
            => /\ rooms'[id] = 0
               /\ id \notin {i \in IdSpace : rooms'[i] # 0 /\ ~heap'[rooms'[i]].isGameStarted}
    ]_vars

\* C34 Event order within a room: once every EnterRoom/LeaveRoom sent to a
\* room that has not started has completed (no handler is under way, nobody
\* has disconnected), the last PlayerCountChanged of the room carries the
\* room's actual roster size and went to every member.
C34_EventOrder ==
  (/\ \A c \in Clients : pc[c] = "idle"
   /\ clients = Clients
   /\ lastEmit.sig = "PlayerCountChanged"
   /\ ~heap[lastEmit.room].isGameStarted
   /\ heap[lastEmit.room].players # {})
    => /\ lastEmit.data = Cardinality(heap[lastEmit.room].players)
       /\ heap[lastEmit.room].players \subseteq lastEmit.to

\* C37 Whole-game card conservation: in every state of a started game the
\* hands and the face-up piles of all seats together hold N * starting_cards
\* cards and none of them is negative, and the hand counts reported in EndGame
\* add up to the same number.
C37_CardConservation ==
  /\ \A o \in Objs :
       (heap[o].isGameStarted /\ heap[o].playerCards # Nil)
         => /\ Total(heap[o]) = Size(heap[o].playerCards) * StartingCards
            /\ \A i \in DOMAIN heap[o].playerCards : heap[o].playerCards[i] >= 0
            /\ \A i \in DOMAIN heap[o].openCards : heap[o].openCards[i] >= 0
  /\ lastEmit.sig = "EndGame"
       => /\ SumAll(lastEmit.data.cards) = Size(lastEmit.data.cards) * StartingCards
          /\ \A i \in DOMAIN lastEmit.data.cards : lastEmit.data.cards[i] >= 0

\* a game has ended after a wrong slap moved a card and reveals moved cards
\* to the face-up piles: EndGame reports a hand of more than starting_cards
C37_Witness ==
  /\ lastEmit.sig = "EndGame"
  /\ \E i \in DOMAIN lastEmit.data.cards : lastEmit.data.cards[i] > StartingCards

\* C38 Session/room consistency: in every state, a session with in_room = true
\* names a room id that is present in the room registry, and the roster of
\* the registered room contains the session.
C38_SessionRoomConsistency ==
  \A c \in clients :
    cl[c].IsInRoom
      => /\ RoomAt(cl[c].RoomID) # 0
         /\ c \in heap[RoomAt(cl[c].RoomID)].players

\* the position of a lock in the acquisition order: roomMu, then a room's
\* lock, then the session-registry lock mu
LockRank(l) == CASE l[1] = "roomMu" -> 0 [] l[1] = "room" -> 1 [] l[1] = "mu" -> 2

\* a set of tasks each of which waits for a lock that a task of the set holds
\* or waits for
Deadlocked ==
  \E S \in (SUBSET Tasks) \ {{}} :
    \A t \in S : SelfBlocked(t) \/ Blockers(t) \cap S # {}

\* C35 Lock discipline: no task waits for or takes a room lock while it holds
\* the session-registry lock; every lock a task takes comes later in the order
\* roomMu, room lock, session-registry lock than the locks it holds; and no
\* set of tasks is deadlocked on these locks.
C35_LockDiscipline ==
  /\ \A t \in Tasks :
       Acquires(t)
         => /\ NextStep(t).l[1] = "room" => Mu \notin HeldLocks(t)
            /\ \A h \in HeldLocks(t) : LockRank(h) < LockRank(NextStep(t).l)
  /\ ~Deadlocked

\* a timer callback or a handler holds a room's lock and the session-registry
\* lock at once while another task waits to write-lock that room
C35_Witness ==
  \E t, u \in Tasks :
    /\ t # u
    /\ \E o \in Objs : /\ RoomLock(o) \in HeldLocks(t) /\ Mu \in HeldLocks(t)
                       /\ lk[u].waiting /\ NextStep(u).l = RoomLock(o)

\* C36 Close is idempotent: no connection's Send channel is closed twice, no
\* frame is sent on a closed one, and the process is not aborted, whatever
\* the interleaving of evictions by direct replies and by broadcasts, the
\* unregister branch and the connection's own requests.
C36_CloseIdempotent ==
  /\ \A c \in Clients : send[c].fault = "none"
  /\ ~crashed

C40_StartingProgress ==
  \A o \in Objs :
    (/\ heap[o].isGameStarted /\ ~heap[o].isCardGameStarted
     /\ Attached(o) # {} /\ Attached(o) \subseteq heap[o].readyPlayers)
      ~> \/ heap[o].isCardGameStarted
         \/ ~heap[o].isGameStarted
         \/ Attached(o) = {}
====
